---- MODULE Spec2Model ----
(***************************************************************************)
(* State-machine model of the isometric game's simulation core:            *)
(*   - the NPC state machine and NPCManager   (src/js/npcs/npcs.js)        *)
(*   - the tree registry queries NPCs rely on (src/js/trees/trees.js)      *)
(*   - the tent registry state                (tents.js, src/unnamed/part_002) *)
(*   - terrain generation                     (src/js/terrain/terrain.js)  *)
(* Screen coordinates are integers (pixels); a radius is a rational        *)
(* <<num, den>> so that the distance test is computed exactly.             *)
(***************************************************************************)
EXTENDS Integers, Sequences, FiniteSets, TLC

VARIABLES
  mapWidth,        \* NPC.mapWidth / NPCManager.mapWidth
  mapHeight,       \* NPC.mapHeight / NPCManager.mapHeight
  mapData,         \* rows of tiles, mapData[y+1][x+1] is the JS mapData[y][x]
  hasTreeManager,  \* FALSE when config.treeManager is null
  trees,           \* TreeManager.trees
  npcs,            \* NPCManager.npcs
  nextNpcId,       \* NPCManager.nextNpcId
  lastSpawn,       \* NPCManager.spawnConfig.lastSpawn
  tweens,          \* tweens added to scene.tweens and not yet completed
  time,            \* the timestamp of the latest NPCManager.update call
  tents,           \* TentManager.tents
  nextTentId,      \* TentManager.nextTentId
  ret              \* return value of the latest direct call of a query

vars == <<mapWidth, mapHeight, mapData, hasTreeManager, trees, npcs, nextNpcId,
          lastSpawn, tweens, time, tents, nextTentId, ret>>

(***************************************************************************)
(* Bounds of the model                                                     *)
(***************************************************************************)
maxNpcs == 2
MaxNpcId == 3
TickMs == 500
MaxStep == 4
MaxTicks == 9
LongTicks == 12
PureW == 2
PureOffset == 40
MaxTentId == 2
MaxTrees == 1
MaxPlanted == 3
SmallSide == 2
CoastSide == 4
NoiseGridHalf == 20
WalkSide == 4
ShoreSide == 10

(***************************************************************************)
(* Program constants                                                       *)
(***************************************************************************)
WATER == "water"
SAND == "sand"
GRASS == "grass"
ROCK == "rock"
SNOW == "snow"
TILE_TYPES == {WATER, SAND, GRASS, ROCK, SNOW}

SEARCHING == "searching"
PLACE_FOUND == "place_found"
MOVING == "moving"
NPC_STATES == {SEARCHING, PLACE_FOUND, MOVING}

stateCheckInterval == 1000
moveSpeed == 2000
spawnInterval == 2000
tileWidth == 128
tileHeight == 64
heightOffset == 20
cameraWidth == 800
cameraHeight == 600
mapCenterX == cameraWidth \div 2
mapCenterY == cameraHeight \div 4
\* the radius hasTreeNearby passes to getTreesInRadius: 0.2 = 1/5
nearbyRadius == <<1, 5>>

(***************************************************************************)
(* Tiles and the terrain map                                               *)
(***************************************************************************)
Tile(type, height) == [type |-> type, height |-> height]

\* what mapData[y][x] yields where the map holds no tile (undefined / null)
NoTile == [type |-> "undefined", height |-> 0]

\* JS: this.mapData[mapY] && this.mapData[mapY][mapX], undefined when absent
TileAt(data, mapX, mapY) ==
  IF mapY + 1 \in DOMAIN data /\ mapX + 1 \in DOMAIN data[mapY + 1]
    THEN data[mapY + 1][mapX + 1]
    ELSE NoTile

\* JS truthiness of mapData[mapY][mapX]
HasTile(data, mapX, mapY) == TileAt(data, mapX, mapY) # NoTile

(***************************************************************************)
(* TreeManager: projection, creation, radius query                         *)
(***************************************************************************)
\* TreeManager.mapToIsometric(mapX, mapY, tileHeight = 0)
mapToIsometric(mapX, mapY, h) ==
  [x |-> mapCenterX + ((mapX - mapY) * tileWidth) \div 2,
   y |-> mapCenterY + ((mapX + mapY) * tileHeight) \div 2 - h * heightOffset]

\* TreeManager.spawnTree: the record pushed to this.trees (sprite, texture and
\* depth are rendering data and are not part of the record)
spawnTree(id, mapX, mapY, offsetX, offsetY, h) ==
  LET iso == mapToIsometric(mapX, mapY, h) IN
  [id |-> id, mapX |-> mapX, mapY |-> mapY,
   offsetX |-> offsetX, offsetY |-> offsetY,
   screenX |-> iso.x + offsetX, screenY |-> iso.y + offsetY,
   height |-> h]

\* climateTreeConfig[climate].treeSpacing, in tenths
treeSpacing10(climate) ==
  CASE climate = "desert" -> 8
    [] climate = "prairie" -> 6
    [] climate = "sparse_forest" -> 4
    [] climate = "dense_forest" -> 2
    [] climate = "high_mountain" -> 7
    [] OTHER -> 5

CLIMATES == {"desert", "prairie", "sparse_forest", "dense_forest", "high_mountain"}

\* TreeManager.spawnTreeWithRandomPosition: offset = (random - 0.5) * tile
\* size * treeSpacing with random in [0, 1); the integer offsets sampled are
\* the two ends of that range and its middle.
randomOffsets(size, climate) ==
  LET m == (size * treeSpacing10(climate)) \div 20 IN {-m, 0, m - 1}

spawnTreeWithRandomPosition(id, mapX, mapY, climate, h) ==
  { spawnTree(id, mapX, mapY, ox, oy, h) :
      ox \in randomOffsets(tileWidth, climate),
      oy \in randomOffsets(tileHeight, climate) }

\* TreeManager.canSpawnTreeOnTile
canSpawnTreeOnTile(tileType) == tileType = GRASS

\* the radius test with a strict comparison
withinRadius_strict(x1, y1, x2, y2, radius) ==
  LET dx == x1 - x2
      dy == y1 - y2
  IN (dx * dx + dy * dy) * (2 * radius[2]) * (2 * radius[2])
       < (radius[1] * tileWidth) * (radius[1] * tileWidth)

\* TreeManager.distance(...) <= radius * (tileWidth / 2), radius = num/den,
\* both sides squared
withinRadius(x1, y1, x2, y2, radius) ==
  LET dx == x1 - x2
      dy == y1 - y2
  IN (dx * dx + dy * dy) * (2 * radius[2]) * (2 * radius[2])
       <= (radius[1] * tileWidth) * (radius[1] * tileWidth)

\* TreeManager.getTreesInRadius
getTreesInRadius(ts, mapX, mapY, radius) ==
  LET centerIso == mapToIsometric(mapX, mapY, 0)
      inside(tree) == withinRadius(centerIso.x, centerIso.y,
                                   tree.screenX, tree.screenY, radius)
  IN SelectSeq(ts, inside)

(***************************************************************************)
(* NPC                                                                     *)
(***************************************************************************)
\* NPC constructor: the fields the state machine uses
NPC(id, mapX, mapY) ==
  [id |-> id, mapX |-> mapX, mapY |-> mapY, state |-> SEARCHING,
   lastStateCheck |-> 0, lastMove |-> 0, isMoving |-> FALSE]

\* isValidPosition forgetting that ROCK is elevated
isValidPosition_noRock(mapX, mapY) ==
  IF mapX < 0 \/ mapX >= mapWidth \/ mapY < 0 \/ mapY >= mapHeight
    THEN FALSE
  ELSE IF ~HasTile(mapData, mapX, mapY)
    THEN FALSE
  ELSE LET tileType == TileAt(mapData, mapX, mapY).type
       IN tileType # WATER /\ tileType # SNOW

\* isValidPosition forgetting SNOW
isValidPosition_noSnow(mapX, mapY) ==
  IF mapX < 0 \/ mapX >= mapWidth \/ mapY < 0 \/ mapY >= mapHeight
    THEN FALSE
  ELSE IF ~HasTile(mapData, mapX, mapY)
    THEN FALSE
  ELSE LET tileType == TileAt(mapData, mapX, mapY).type
       IN tileType # WATER /\ tileType # ROCK

\* NPC.isValidPosition
isValidPosition(mapX, mapY) ==
  IF mapX < 0 \/ mapX >= mapWidth \/ mapY < 0 \/ mapY >= mapHeight
    THEN FALSE
  ELSE IF ~HasTile(mapData, mapX, mapY)
    THEN FALSE
  ELSE LET tileType == TileAt(mapData, mapX, mapY).type
       IN tileType # WATER /\ tileType # ROCK /\ tileType # SNOW

\* hasTreeNearby comparing the query's length with >= 0
hasTreeNearby_offByOne(mapX, mapY) ==
  IF ~hasTreeManager
    THEN FALSE
    ELSE Len(getTreesInRadius(trees, mapX, mapY, nearbyRadius)) >= 0

\* NPC.hasTreeNearby
hasTreeNearby(mapX, mapY) ==
  IF ~hasTreeManager
    THEN FALSE
    ELSE Len(getTreesInRadius(trees, mapX, mapY, nearbyRadius)) > 0

\* isNicePlace without the test of the tile type
isNicePlace_anyTile(mapX, mapY) ==
  IF mapX < 0 \/ mapX >= mapWidth \/ mapY < 0 \/ mapY >= mapHeight
    THEN FALSE
  ELSE IF ~HasTile(mapData, mapX, mapY)
    THEN FALSE
  ELSE hasTreeNearby(mapX, mapY)

\* NPC.isNicePlace
isNicePlace(mapX, mapY) ==
  IF mapX < 0 \/ mapX >= mapWidth \/ mapY < 0 \/ mapY >= mapHeight
    THEN FALSE
  ELSE IF ~HasTile(mapData, mapX, mapY)
    THEN FALSE
  ELSE LET tileType == TileAt(mapData, mapX, mapY).type
       IN IF tileType # SAND /\ tileType # GRASS
            THEN FALSE
            ELSE hasTreeNearby(mapX, mapY)

\* NPC.checkCurrentPosition
checkCurrentPosition(npc) ==
  IF isNicePlace(npc.mapX, npc.mapY)
    THEN [npc EXCEPT !.state = PLACE_FOUND]
    ELSE npc

\* the directions array of NPC.move: North, East, South, West
directions ==
  << [dx |-> 0, dy |-> -1], [dx |-> 1, dy |-> 0],
     [dx |-> 0, dy |-> 1], [dx |-> -1, dy |-> 0] >>

\* validMoves without the isValidPosition filter
validMoves_unfiltered(npc) ==
  DOMAIN directions

\* the validMoves filter of NPC.move
validMoves(npc) ==
  { i \in DOMAIN directions :
      isValidPosition(npc.mapX + directions[i].dx, npc.mapY + directions[i].dy) }

\* the value of ret while no query was called
NoCall == [op |-> "none", x |-> 0, y |-> 0, result |-> FALSE]

\* an outcome of a step of one NPC: the NPC afterwards and the tweens it added
Outcome(npc, tws) == [npc |-> npc, tweens |-> tws]

\* move recording the move in the NPC's state (NPC_STATES.MOVING)
move_setsMoving(npc, t) ==
  IF npc.isMoving
    THEN { Outcome(npc, {}) }
  ELSE IF validMoves(npc) = {}
    THEN { Outcome(npc, {}) }
  ELSE { Outcome([npc EXCEPT !.isMoving = TRUE, !.state = MOVING],
                 { [npc |-> npc.id,
                    newMapX |-> npc.mapX + directions[i].dx,
                    newMapY |-> npc.mapY + directions[i].dy,
                    start |-> t, duration |-> moveSpeed] }) :
           i \in validMoves(npc) }

\* move committing the target cell when the tween starts
move_commitsAtStart(npc, t) ==
  IF npc.isMoving
    THEN { Outcome(npc, {}) }
  ELSE IF validMoves(npc) = {}
    THEN { Outcome(npc, {}) }
  ELSE { Outcome([npc EXCEPT !.isMoving = TRUE,
                             !.mapX = npc.mapX + directions[i].dx,
                             !.mapY = npc.mapY + directions[i].dy],
                 { [npc |-> npc.id,
                    newMapX |-> npc.mapX + directions[i].dx,
                    newMapY |-> npc.mapY + directions[i].dy,
                    start |-> t, duration |-> moveSpeed] }) :
           i \in validMoves(npc) }

\* NPC.move at time t: every outcome the random choice can produce.  A tween
\* carries the NPC it was started by, the cell its onComplete commits, the
\* time it was added at and its duration.
move(npc, t) ==
  IF npc.isMoving
    THEN { Outcome(npc, {}) }
  ELSE IF validMoves(npc) = {}
    THEN { Outcome(npc, {}) }
  ELSE { Outcome([npc EXCEPT !.isMoving = TRUE],
                 { [npc |-> npc.id,
                    newMapX |-> npc.mapX + directions[i].dx,
                    newMapY |-> npc.mapY + directions[i].dy,
                    start |-> t, duration |-> moveSpeed] }) :
           i \in validMoves(npc) }

\* update without the "not moving" condition
update_noMovingGuard(npc, t) ==
  IF npc.state = SEARCHING
    THEN LET checked ==
               IF t - npc.lastStateCheck >= stateCheckInterval
                 THEN [checkCurrentPosition(npc) EXCEPT !.lastStateCheck = t]
                 ELSE npc
         IN IF t - checked.lastMove >= moveSpeed
              THEN { Outcome([o.npc EXCEPT !.lastMove = t], o.tweens) :
                       o \in move(checked, t) }
              ELSE { Outcome(checked, {}) }
    ELSE { Outcome(npc, {}) }

\* update resetting the move timer only when a move was started
update_resetOnStart(npc, t) ==
  IF npc.state = SEARCHING /\ ~npc.isMoving
    THEN LET checked ==
               IF t - npc.lastStateCheck >= stateCheckInterval
                 THEN [checkCurrentPosition(npc) EXCEPT !.lastStateCheck = t]
                 ELSE npc
         IN IF t - checked.lastMove >= moveSpeed
              THEN { Outcome(IF o.tweens = {} THEN o.npc
                                              ELSE [o.npc EXCEPT !.lastMove = t],
                             o.tweens) :
                       o \in move(checked, t) }
              ELSE { Outcome(checked, {}) }
    ELSE { Outcome(npc, {}) }

\* update with a settlement check interval longer than moveSpeed
update_slowCheck(npc, t) ==
  IF npc.state = SEARCHING /\ ~npc.isMoving
    THEN LET checked ==
               IF t - npc.lastStateCheck >= 3 * stateCheckInterval
                 THEN [checkCurrentPosition(npc) EXCEPT !.lastStateCheck = t]
                 ELSE npc
         IN IF t - checked.lastMove >= moveSpeed
              THEN { Outcome([o.npc EXCEPT !.lastMove = t], o.tweens) :
                       o \in move(checked, t) }
              ELSE { Outcome(checked, {}) }
    ELSE { Outcome(npc, {}) }

\* NPC.update(time)
update(npc, t) ==
  IF npc.state = SEARCHING /\ ~npc.isMoving
    THEN LET checked ==
               IF t - npc.lastStateCheck >= stateCheckInterval
                 THEN [checkCurrentPosition(npc) EXCEPT !.lastStateCheck = t]
                 ELSE npc
         IN IF t - checked.lastMove >= moveSpeed
              THEN { Outcome([o.npc EXCEPT !.lastMove = t], o.tweens) :
                       o \in move(checked, t) }
              ELSE { Outcome(checked, {}) }
    ELSE { Outcome(npc, {}) }

\* the onComplete callback of the tween started by NPC.move, applied to the
\* NPC object the tween belongs to
onComplete(npc, tw) ==
  [npc EXCEPT !.mapX = tw.newMapX, !.mapY = tw.newMapY, !.isMoving = FALSE]

(***************************************************************************)
(* NPCManager                                                              *)
(***************************************************************************)
\* the borderPositions of NPCManager.findValidEntryPoint
borderPositions ==
  { <<x, y>> : x \in 0 .. mapWidth - 1, y \in {0, mapHeight - 1} }
    \cup { <<x, y>> : x \in {0, mapWidth - 1}, y \in 1 .. mapHeight - 2 }

\* validPositions without the filter on the tile
validPositions_unfiltered == borderPositions

\* the validPositions of NPCManager.findValidEntryPoint; the entry point is
\* a random element of it, or null when it is empty
validPositions ==
  { pos \in borderPositions :
      /\ HasTile(mapData, pos[1], pos[2])
      /\ LET tileType == TileAt(mapData, pos[1], pos[2]).type
         IN tileType # WATER /\ tileType # ROCK /\ tileType # SNOW }

\* npcs.forEach(npc => npc.update(time)): every combination of outcomes
RECURSIVE updateAll(_, _)
updateAll(ns, t) ==
  IF ns = <<>>
    THEN { [npcs |-> <<>>, tweens |-> {}] }
    ELSE { [npcs |-> <<o.npc>> \o rest.npcs, tweens |-> o.tweens \cup rest.tweens] :
             o \in update(Head(ns), t), rest \in updateAll(Tail(ns), t) }

\* the latest timestamp the driver passes: later on the single-cell map, where
\* NPCs cannot move and a population at capacity can outlast spawnInterval
Horizon ==
  IF mapWidth = 1 /\ mapHeight = 1 THEN LongTicks * TickMs ELSE MaxTicks * TickMs

\* spawnNPC consuming an id when it finds no entry point
spawnNPC_consumesId(ns, nextId) ==
  IF validPositions = {}
    THEN { [npcs |-> ns, nextNpcId |-> nextId + 1] }
    ELSE { [npcs |-> Append(ns, NPC(nextId, pos[1], pos[2])),
            nextNpcId |-> nextId + 1] : pos \in validPositions }

\* NPCManager.spawnNPC: the population and id counter after the call, for
\* every entry point the random choice can produce
spawnNPC(ns, nextId) ==
  IF validPositions = {}
    THEN { [npcs |-> ns, nextNpcId |-> nextId] }
    ELSE { [npcs |-> Append(ns, NPC(nextId, pos[1], pos[2])),
            nextNpcId |-> nextId + 1] : pos \in validPositions }

\* NPCManager.update spawning on every tick below capacity
NPCManager_update_noInterval(t) ==
  /\ t > time
  /\ time' = t
  /\ \E u \in updateAll(npcs, t) :
       /\ tweens' = tweens \cup u.tweens
       /\ IF Len(u.npcs) < maxNpcs
            THEN /\ nextNpcId <= MaxNpcId
                 /\ \E s \in spawnNPC(u.npcs, nextNpcId) :
                      /\ npcs' = s.npcs
                      /\ nextNpcId' = s.nextNpcId
                 /\ lastSpawn' = t
            ELSE /\ npcs' = u.npcs
                 /\ UNCHANGED <<nextNpcId, lastSpawn>>
  /\ UNCHANGED <<mapWidth, mapHeight, mapData, hasTreeManager, trees,
                 tents, nextTentId, ret>>

\* NPCManager.update stamping lastSpawn on every call
NPCManager_update_stampsAlways(t) ==
  /\ t > time
  /\ time' = t
  /\ \E u \in updateAll(npcs, t) :
       /\ tweens' = tweens \cup u.tweens
       /\ IF Len(u.npcs) < maxNpcs /\ t - lastSpawn >= spawnInterval
            THEN /\ nextNpcId <= MaxNpcId
                 /\ \E s \in spawnNPC(u.npcs, nextNpcId) :
                      /\ npcs' = s.npcs
                      /\ nextNpcId' = s.nextNpcId
            ELSE /\ npcs' = u.npcs
                 /\ UNCHANGED nextNpcId
       /\ lastSpawn' = t
  /\ UNCHANGED <<mapWidth, mapHeight, mapData, hasTreeManager, trees,
                 tents, nextTentId, ret>>

\* NPCManager.update(t); the driver passes increasing timestamps.  maxNpcs
\* is spawnConfig.maxNpcs; ids are capped at MaxNpcId to keep the id counter
\* finite.
NPCManager_update(t) ==
  /\ t > time
  /\ time' = t
  /\ \E u \in updateAll(npcs, t) :
       /\ tweens' = tweens \cup u.tweens
       /\ IF Len(u.npcs) < maxNpcs /\ t - lastSpawn >= spawnInterval
            THEN /\ nextNpcId <= MaxNpcId
                 /\ \E s \in spawnNPC(u.npcs, nextNpcId) :
                      /\ npcs' = s.npcs
                      /\ nextNpcId' = s.nextNpcId
                 /\ lastSpawn' = t
            ELSE /\ npcs' = u.npcs
                 /\ UNCHANGED <<nextNpcId, lastSpawn>>
  /\ UNCHANGED <<mapWidth, mapHeight, mapData, hasTreeManager, trees,
                 tents, nextTentId, ret>>

\* a completion whose callback lands on the first NPC of the list when the
\* NPC that started the tween is gone
TweenComplete_landsOnHead(tw) ==
  /\ tw \in tweens
  /\ tweens' = tweens \ {tw}
  /\ npcs' = [i \in DOMAIN npcs |->
                IF \/ npcs[i].id = tw.npc
                   \/ i = 1 /\ \A j \in DOMAIN npcs : npcs[j].id # tw.npc
                  THEN onComplete(npcs[i], tw) ELSE npcs[i]]
  /\ UNCHANGED <<mapWidth, mapHeight, mapData, hasTreeManager, trees,
                 nextNpcId, lastSpawn, time, tents, nextTentId, ret>>

\* a tween reaches its end: onComplete runs on the NPC that started it; when
\* that NPC was removed from the manager the callback touches no live NPC
TweenComplete(tw) ==
  /\ tw \in tweens
  /\ tweens' = tweens \ {tw}
  /\ npcs' = [i \in DOMAIN npcs |->
                IF npcs[i].id = tw.npc THEN onComplete(npcs[i], tw) ELSE npcs[i]]
  /\ UNCHANGED <<mapWidth, mapHeight, mapData, hasTreeManager, trees,
                 nextNpcId, lastSpawn, time, tents, nextTentId, ret>>

\* findIndex(o => o.id === id) followed by splice(index, 1): the collection
\* without its first element of that id
removeFirst(objs, id) ==
  IF \E i \in DOMAIN objs : objs[i].id = id
    THEN LET index == CHOOSE i \in DOMAIN objs :
                        /\ objs[i].id = id
                        /\ \A j \in 1 .. i - 1 : objs[j].id # id
         IN SubSeq(objs, 1, index - 1) \o SubSeq(objs, index + 1, Len(objs))
    ELSE objs

\* removal that drops the last element when the id is not found, as
\* splice(-1, 1) would
removeNPC_spliceMinusOne(ns, npcId) ==
  IF \E i \in DOMAIN ns : ns[i].id = npcId
    THEN removeFirst(ns, npcId)
    ELSE SubSeq(ns, 1, Len(ns) - 1)

\* NPCManager.removeNPC(npcId): the population after the call
removeNPC(ns, npcId) == removeFirst(ns, npcId)

RemoveNPC(npcId) ==
  /\ npcs' = removeNPC(npcs, npcId)
  /\ UNCHANGED <<mapWidth, mapHeight, mapData, hasTreeManager, trees,
                 nextNpcId, lastSpawn, tweens, time, tents, nextTentId, ret>>

\* clearAllNPCs emptying the tree registry as well
ClearAllNPCs_clearsTrees ==
  /\ npcs' = <<>>
  /\ trees' = <<>>
  /\ UNCHANGED <<mapWidth, mapHeight, mapData, hasTreeManager,
                 nextNpcId, lastSpawn, tweens, time, tents, nextTentId, ret>>

\* NPCManager.clearAllNPCs()
ClearAllNPCs ==
  /\ npcs' = <<>>
  /\ UNCHANGED <<mapWidth, mapHeight, mapData, hasTreeManager, trees,
                 nextNpcId, lastSpawn, tweens, time, tents, nextTentId, ret>>

(***************************************************************************)
(* Worlds the simulation starts in                                         *)
(***************************************************************************)
G0 == Tile(GRASS, 0)
S0 == Tile(SAND, 0)
W0 == Tile(WATER, 0)
R1 == Tile(ROCK, 1)
N2 == Tile(SNOW, 2)

\* the 2x2 map of the specification's end-to-end scenario
World2x2 ==
  [mapWidth |-> 2, mapHeight |-> 2,
   mapData |-> << <<G0, R1>>,
                  <<W0, N2>> >>,
   treeCell |-> <<0, 0>>]

\* a 3x3 map with every tile type; the tree cell (1,1) is not a border cell
World3x3 ==
  [mapWidth |-> 3, mapHeight |-> 3,
   mapData |-> << <<W0, S0, W0>>,
                  <<R1, G0, G0>>,
                  <<N2, R1, W0>> >>,
   treeCell |-> <<1, 1>>]

\* a map whose data is smaller than the configured 3x2 grid
WorldMissing ==
  [mapWidth |-> 3, mapHeight |-> 2,
   mapData |-> << <<G0, S0>>,
                  <<G0>> >>,
   treeCell |-> <<0, 1>>]

\* a map without any valid entry point
WorldClosed ==
  [mapWidth |-> 2, mapHeight |-> 1,
   mapData |-> << <<W0, R1>> >>,
   treeCell |-> <<0, 0>>]

\* a single cell: NPCs enter on it and have nowhere to go
World1x1 ==
  [mapWidth |-> 1, mapHeight |-> 1,
   mapData |-> << <<G0>> >>,
   treeCell |-> <<0, 0>>]

Worlds == {World2x2, World3x3, WorldMissing, WorldClosed, World1x1}

\* the tree registries a world starts with: empty, or one tree on the world's
\* tree cell as generateTrees places it for a climate
TreeLayouts(w) ==
  LET tile == TileAt(w.mapData, w.treeCell[1], w.treeCell[2]) IN
  { <<>> } \cup
  IF canSpawnTreeOnTile(tile.type)
    THEN { <<tree>> :
             tree \in UNION { spawnTreeWithRandomPosition(
                                1, w.treeCell[1], w.treeCell[2], c, tile.height) :
                              c \in {"desert", "dense_forest"} } }
    ELSE {}

Init ==
  /\ \E w \in Worlds :
       /\ mapWidth = w.mapWidth
       /\ mapHeight = w.mapHeight
       /\ mapData = w.mapData
       /\ trees \in TreeLayouts(w)
  /\ hasTreeManager \in BOOLEAN
  /\ npcs = <<>>
  /\ nextNpcId = 1
  /\ lastSpawn = 0
  /\ tweens = {}
  /\ time = 0
  /\ tents = <<>>
  /\ nextTentId = 1
  /\ ret = NoCall

\* a frame of the game loop: update(time) with a later timestamp, up to the
\* horizon of the run
Tick(horizon) ==
  \E k \in 1 .. MaxStep :
    /\ time + k * TickMs <= horizon
    /\ NPCManager_update(time + k * TickMs)

Next ==
  \/ Tick(Horizon)
  \/ \E tw \in tweens : TweenComplete(tw)
  \/ \E id \in 1 .. MaxNpcId : RemoveNPC(id)
  \/ ClearAllNPCs

Spec == Init /\ [][Next]_vars

(***************************************************************************)
(* The game loop left to run: frames keep arriving and nothing removes an  *)
(* NPC.  The worlds are those where an NPC that entered has no move, so no *)
(* tween is ever started.                                                  *)
(***************************************************************************)
\* long enough for maxNpcs spawns at the slowest cadence the frame steps allow
LiveHorizon == maxNpcs * (spawnInterval + MaxStep * TickMs)

InitLive ==
  /\ \E w \in {World1x1, World2x2, WorldClosed} :
       /\ mapWidth = w.mapWidth
       /\ mapHeight = w.mapHeight
       /\ mapData = w.mapData
       /\ trees \in { <<>>, <<spawnTree(1, w.treeCell[1], w.treeCell[2], 0, 0, 0)>> }
  /\ hasTreeManager \in BOOLEAN
  /\ npcs = <<>>
  /\ nextNpcId = 1
  /\ lastSpawn = 0
  /\ tweens = {}
  /\ time = 0
  /\ tents = <<>>
  /\ nextTentId = 1
  /\ ret = NoCall

NextLive == Tick(LiveHorizon)

\* Phaser calls the scene's update on every frame, so a frame that can
\* arrive does arrive
SpecLive == InitLive /\ [][NextLive]_vars /\ WF_vars(NextLive)

(***************************************************************************)
(* Direct calls of the NPC's position predicates on arbitrary maps         *)
(***************************************************************************)
\* the tiles a map cell may hold: every type, with the heights terrain
\* generation gives it and, for SAND and GRASS, raised ones as well
PureTiles ==
  { W0, S0, Tile(SAND, 1), G0, Tile(GRASS, 2), R1, Tile(ROCK, 2), N2 }

\* coordinates a caller may pass: the grid, one cell beyond each side
PureXs == -1 .. PureW + 1
PureYs == -1 .. 2

\* the tree registries of the direct calls: empty, or one tree registered on
\* cell (0,0) by treeManager.spawnTree, at the tile centre or away from it
PureTrees ==
  { <<>> } \cup { <<spawnTree(1, 0, 0, ox, 0, 0)>> : ox \in {0, PureOffset} }

\* one row of map data under a configured size that may be smaller or larger
\* than the data
InitPure ==
  /\ mapWidth \in 1 .. PureW + 1
  /\ mapHeight \in 1 .. 2
  /\ mapData \in { <<row>> : row \in [1 .. PureW -> PureTiles \cup {NoTile}] }
  /\ hasTreeManager = TRUE
  /\ trees \in PureTrees
  /\ npcs = <<>>
  /\ nextNpcId = 1
  /\ lastSpawn = 0
  /\ tweens = {}
  /\ time = 0
  /\ tents = <<>>
  /\ nextTentId = 1
  /\ ret = NoCall

\* npc.isValidPosition(x, y) called directly
CallIsValidPosition(x, y) ==
  /\ ret' = [op |-> "isValidPosition", x |-> x, y |-> y,
             result |-> isValidPosition(x, y)]
  /\ UNCHANGED <<mapWidth, mapHeight, mapData, hasTreeManager, trees, npcs,
                 nextNpcId, lastSpawn, tweens, time, tents, nextTentId>>

\* npc.isNicePlace(x, y) called directly
CallIsNicePlace(x, y) ==
  /\ ret' = [op |-> "isNicePlace", x |-> x, y |-> y,
             result |-> isNicePlace(x, y)]
  /\ UNCHANGED <<mapWidth, mapHeight, mapData, hasTreeManager, trees, npcs,
                 nextNpcId, lastSpawn, tweens, time, tents, nextTentId>>

NextPure ==
  \/ \E x \in PureXs, y \in PureYs : CallIsValidPosition(x, y)
  \/ \E x \in PureXs, y \in PureYs : CallIsNicePlace(x, y)

SpecPure == InitPure /\ [][NextPure]_vars

(***************************************************************************)
(* The three registries called directly: NPCManager, TreeManager and       *)
(* TentManager over one map.  Every call records what it returned in ret.  *)
(***************************************************************************)
\* a 2x1 grid whose map data holds the first cell only
WorldHole ==
  [mapWidth |-> 2, mapHeight |-> 1,
   mapData |-> << <<G0>> >>,
   treeCell |-> <<0, 0>>]

\* Tent constructor: the fields the registry uses
Tent(id, mapX, mapY) == [id |-> id, mapX |-> mapX, mapY |-> mapY]

\* createTent numbering a tent by the size of the registry
createTent_idFromCount(ts, nextId, mapX, mapY) ==
  IF mapX < 0 \/ mapX >= mapWidth \/ mapY < 0 \/ mapY >= mapHeight
    THEN [tents |-> ts, nextTentId |-> nextId, created |-> FALSE]
  ELSE IF ~HasTile(mapData, mapX, mapY)
    THEN [tents |-> ts, nextTentId |-> nextId, created |-> FALSE]
  ELSE [tents |-> Append(ts, Tent(Len(ts) + 1, mapX, mapY)),
        nextTentId |-> Len(ts) + 2, created |-> TRUE]

\* createTent without the test of the map data
createTent_noDataCheck(ts, nextId, mapX, mapY) ==
  IF mapX < 0 \/ mapX >= mapWidth \/ mapY < 0 \/ mapY >= mapHeight
    THEN [tents |-> ts, nextTentId |-> nextId, created |-> FALSE]
    ELSE [tents |-> Append(ts, Tent(nextId, mapX, mapY)),
          nextTentId |-> nextId + 1, created |-> TRUE]

\* TentManager.createTent(mapX, mapY): the registry and id counter after the
\* call, and whether a tent (rather than null) was returned
createTent(ts, nextId, mapX, mapY) ==
  IF mapX < 0 \/ mapX >= mapWidth \/ mapY < 0 \/ mapY >= mapHeight
    THEN [tents |-> ts, nextTentId |-> nextId, created |-> FALSE]
  ELSE IF ~HasTile(mapData, mapX, mapY)
    THEN [tents |-> ts, nextTentId |-> nextId, created |-> FALSE]
  ELSE [tents |-> Append(ts, Tent(nextId, mapX, mapY)),
        nextTentId |-> nextId + 1, created |-> TRUE]

\* TentManager.removeTent(tentId): the registry after the call
removeTent(ts, tentId) == removeFirst(ts, tentId)

\* TreeManager.removeTreeById(treeId): the registry after the call
removeTreeById(ts, treeId) == removeFirst(ts, treeId)

\* the return value of removeNPC, removeTent and removeTreeById
found(objs, id) == \E i \in DOMAIN objs : objs[i].id = id

\* the ids generateTreeId can return
TreeIds == 1 .. MaxTrees

\* what the calls leave alone
RegistryFrame ==
  UNCHANGED <<mapWidth, mapHeight, mapData, hasTreeManager, lastSpawn, tweens, time>>

\* manager.spawnNPC() called directly
CallSpawnNPC ==
  /\ nextNpcId <= MaxNpcId
  /\ \E s \in spawnNPC(npcs, nextNpcId) :
       /\ npcs' = s.npcs
       /\ nextNpcId' = s.nextNpcId
       /\ ret' = [op |-> "spawnNPC", id |-> nextNpcId, x |-> 0, y |-> 0,
                  result |-> Len(s.npcs) > Len(npcs)]
  /\ UNCHANGED <<trees, tents, nextTentId>>
  /\ RegistryFrame

\* manager.removeNPC(npcId) called directly
CallRemoveNPC(npcId) ==
  /\ npcs' = removeNPC(npcs, npcId)
  /\ ret' = [op |-> "removeNPC", id |-> npcId, x |-> 0, y |-> 0,
             result |-> found(npcs, npcId)]
  /\ UNCHANGED <<nextNpcId, trees, tents, nextTentId>>
  /\ RegistryFrame

\* manager.clearAllNPCs() called directly
CallClearAllNPCs ==
  /\ npcs' = <<>>
  /\ ret' = [op |-> "clearAllNPCs", id |-> 0, x |-> 0, y |-> 0, result |-> TRUE]
  /\ UNCHANGED <<nextNpcId, trees, tents, nextTentId>>
  /\ RegistryFrame

\* treeManager.spawnTree(mapX, mapY): offsets and tile height default to 0;
\* the registry is capped at MaxTrees
CallSpawnTree(mapX, mapY) ==
  /\ Len(trees) < MaxTrees
  /\ \E id \in TreeIds :
       trees' = Append(trees, spawnTree(id, mapX, mapY, 0, 0, 0))
  /\ ret' = [op |-> "spawnTree", id |-> 0, x |-> mapX, y |-> mapY, result |-> TRUE]
  /\ UNCHANGED <<npcs, nextNpcId, tents, nextTentId>>
  /\ RegistryFrame

\* treeManager.removeTreeById(treeId)
CallRemoveTreeById(treeId) ==
  /\ trees' = removeTreeById(trees, treeId)
  /\ ret' = [op |-> "removeTreeById", id |-> treeId, x |-> 0, y |-> 0,
             result |-> found(trees, treeId)]
  /\ UNCHANGED <<npcs, nextNpcId, tents, nextTentId>>
  /\ RegistryFrame

\* treeManager.clearAllTrees()
CallClearAllTrees ==
  /\ trees' = <<>>
  /\ ret' = [op |-> "clearAllTrees", id |-> 0, x |-> 0, y |-> 0, result |-> TRUE]
  /\ UNCHANGED <<npcs, nextNpcId, tents, nextTentId>>
  /\ RegistryFrame

\* tentManager.createTent(mapX, mapY); ids are capped at MaxTentId
CallCreateTent(mapX, mapY) ==
  /\ nextTentId <= MaxTentId
  /\ LET r == createTent(tents, nextTentId, mapX, mapY) IN
       /\ tents' = r.tents
       /\ nextTentId' = r.nextTentId
       /\ ret' = [op |-> "createTent", id |-> nextTentId, x |-> mapX, y |-> mapY,
                  result |-> r.created]
  /\ UNCHANGED <<npcs, nextNpcId, trees>>
  /\ RegistryFrame

\* tentManager.removeTent(tentId)
CallRemoveTent(tentId) ==
  /\ tents' = removeTent(tents, tentId)
  /\ ret' = [op |-> "removeTent", id |-> tentId, x |-> 0, y |-> 0,
             result |-> found(tents, tentId)]
  /\ UNCHANGED <<npcs, nextNpcId, trees, nextTentId>>
  /\ RegistryFrame

\* tentManager.clearAllTents()
CallClearAllTents ==
  /\ tents' = <<>>
  /\ ret' = [op |-> "clearAllTents", id |-> 0, x |-> 0, y |-> 0, result |-> TRUE]
  /\ UNCHANGED <<npcs, nextNpcId, trees, nextTentId>>
  /\ RegistryFrame

\* the three managers constructed over WorldHole
InitRegistry ==
  /\ mapWidth = WorldHole.mapWidth
  /\ mapHeight = WorldHole.mapHeight
  /\ mapData = WorldHole.mapData
  /\ hasTreeManager = TRUE
  /\ trees = <<>>
  /\ npcs = <<>>
  /\ nextNpcId = 1
  /\ lastSpawn = 0
  /\ tweens = {}
  /\ time = 0
  /\ tents = <<>>
  /\ nextTentId = 1
  /\ ret = NoCall

\* coordinates passed to the create operations: the grid and one cell beyond
RegistryXs == -1 .. mapWidth
RegistryYs == -1 .. mapHeight

NextRegistry ==
  \/ CallSpawnNPC
  \/ \E id \in 1 .. MaxNpcId + 1 : CallRemoveNPC(id)
  \/ CallClearAllNPCs
  \/ \E x \in RegistryXs : CallSpawnTree(x, 0)
  \/ \E id \in 1 .. MaxTrees + 1 : CallRemoveTreeById(id)
  \/ CallClearAllTrees
  \/ \E x \in RegistryXs, y \in RegistryYs : CallCreateTent(x, y)
  \/ \E id \in 1 .. MaxTentId + 1 : CallRemoveTent(id)
  \/ CallClearAllTents

SpecRegistry == InitRegistry /\ [][NextRegistry]_vars

(***************************************************************************)
(* TreeManager: generation over a map, radius query and radius removal     *)
(***************************************************************************)
\* climateTreeConfig[climate].maxTreesPerTile, defaultTreeConfig for a climate
\* the table does not have
maxTreesPerTile(climate) ==
  CASE climate = "desert" -> 1
    [] climate = "prairie" -> 2
    [] climate = "sparse_forest" -> 3
    [] climate = "dense_forest" -> 5
    [] climate = "high_mountain" -> 1
    [] OTHER -> 2

\* the values calculateTreesForTile can return: 0 when the probability roll
\* fails, otherwise 1 to maxTreesPerTile
calculateTreesForTile(climate) == 0 .. maxTreesPerTile(climate)

\* the cells of the configured grid in the order of generateTrees' loops
CellSeq ==
  [i \in 1 .. mapWidth * mapHeight |-> <<(i - 1) % mapWidth, (i - 1) \div mapWidth>>]

\* the cells generateTrees spawns trees on
GrassCells(map) ==
  { c \in (0 .. mapWidth - 1) \X (0 .. mapHeight - 1) :
      canSpawnTreeOnTile(TileAt(map, c[1], c[2]).type) }

\* the trees generateTrees pushes from cell CellSeq[i] on, after those of acc:
\* counts[c] draws the number of trees of grass cell c, offsetX and offsetY
\* are the offsets drawn (the same for every tree of the call); the k-th tree
\* gets id k
RECURSIVE treesFrom(_, _, _, _, _, _, _)
treesFrom(i, acc, map, climate, counts, offsetX, offsetY) ==
  IF i > Len(CellSeq)
    THEN acc
    ELSE LET c == CellSeq[i]
             tileData == TileAt(map, c[1], c[2])
             n == IF canSpawnTreeOnTile(tileData.type) THEN counts[c] ELSE 0
             new == [k \in 1 .. n |->
                       spawnTree(Len(acc) + k, c[1], c[2], offsetX, offsetY,
                                 tileData.height)]
         IN treesFrom(i + 1, acc \o new, map, climate, counts, offsetX, offsetY)

\* generateTrees without the clearAllTrees call
generateTrees_noClear(ts, map, climate, counts, offsetX, offsetY) ==
  treesFrom(1, ts, map, climate, counts, offsetX, offsetY)

\* TreeManager.generateTrees(map, climate): the registry after the call
generateTrees(ts, map, climate, counts, offsetX, offsetY) ==
  treesFrom(1, <<>>, map, climate, counts, offsetX, offsetY)

\* removeTreesInRadius removing the first tree in the radius only
removeTreesInRadius_firstOnly(ts, mapX, mapY, radius) ==
  LET inside == getTreesInRadius(ts, mapX, mapY, radius) IN
  IF inside = <<>>
    THEN [trees |-> ts, removedCount |-> 0]
    ELSE [trees |-> LET index == CHOOSE i \in DOMAIN ts :
                                   /\ ts[i] = inside[1]
                                   /\ \A j \in 1 .. i - 1 : ts[j] # inside[1]
                    IN SubSeq(ts, 1, index - 1) \o SubSeq(ts, index + 1, Len(ts)),
          removedCount |-> 1]

\* TreeManager.removeTreesInRadius: the registry after the call and the
\* count returned
removeTreesInRadius(ts, mapX, mapY, radius) ==
  LET centerIso == mapToIsometric(mapX, mapY, 0)
      outside(tree) == ~withinRadius(centerIso.x, centerIso.y,
                                     tree.screenX, tree.screenY, radius)
      kept == SelectSeq(ts, outside)
  IN [trees |-> kept, removedCount |-> Len(ts) - Len(kept)]

\* the index findIndex(tree => tree.mapX === mapX && tree.mapY === mapY)
\* returns, 0 standing for -1
findIndexAt(ts, mapX, mapY) ==
  IF \E i \in DOMAIN ts : ts[i].mapX = mapX /\ ts[i].mapY = mapY
    THEN CHOOSE i \in DOMAIN ts :
           /\ ts[i].mapX = mapX /\ ts[i].mapY = mapY
           /\ \A j \in 1 .. i - 1 : ~(ts[j].mapX = mapX /\ ts[j].mapY = mapY)
    ELSE 0

\* removeTreeAt removing every tree of the cell
removeTreeAt_all(ts, mapX, mapY) ==
  [trees |-> SelectSeq(ts, LAMBDA tree : ~(tree.mapX = mapX /\ tree.mapY = mapY)),
   result |-> findIndexAt(ts, mapX, mapY) # 0]

\* TreeManager.removeTreeAt(mapX, mapY): the registry after the call and the
\* value returned
removeTreeAt(ts, mapX, mapY) ==
  LET treeIndex == findIndexAt(ts, mapX, mapY) IN
  IF treeIndex # 0
    THEN [trees |-> SubSeq(ts, 1, treeIndex - 1) \o SubSeq(ts, treeIndex + 1, Len(ts)),
          result |-> TRUE]
    ELSE [trees |-> ts, result |-> FALSE]

\* the null getTreeAt returns
NoTree == [id |-> 0]

\* TreeManager.getTreeAt(mapX, mapY)
getTreeAt(ts, mapX, mapY) ==
  LET treeIndex == findIndexAt(ts, mapX, mapY) IN
  IF treeIndex # 0 THEN ts[treeIndex] ELSE NoTree

\* the climates generateTrees is called with: the five of the table and one
\* the table does not have
TreeClimates == CLIMATES \cup {"tundra"}

\* cells trees are planted on by spawnTree(mapX, mapY) before the calls
PlantCells == { <<0, 0>>, <<1, 0>>, <<1, 1>> }

\* the registries the calls start from: up to MaxPlanted zero-offset trees,
\* each from a spawnTree(mapX, mapY) call
RECURSIVE Planted(_)
Planted(n) ==
  IF n = 0
    THEN { <<>> }
    ELSE Planted(n - 1) \cup
         { Append(ts, spawnTree(Len(ts) + 1, c[1], c[2], 0, 0, 0)) :
             ts \in { t \in Planted(n - 1) : Len(t) = n - 1 }, c \in PlantCells }

\* the radii of the queries, in tiles: 0.2, 1 and 2
Radii == { <<1, 5>>, <<1, 1>>, <<2, 1>> }

\* the cells of the queries
QueryCells == { <<0, 0>>, <<1, 0>> }

\* a TreeManager over a map that covers its grid, with planted trees
InitTrees ==
  /\ \E w \in {World2x2, WorldClosed} :
       /\ mapWidth = w.mapWidth
       /\ mapHeight = w.mapHeight
       /\ mapData = w.mapData
  /\ hasTreeManager = TRUE
  /\ trees \in Planted(MaxPlanted)
  /\ npcs = <<>>
  /\ nextNpcId = 1
  /\ lastSpawn = 0
  /\ tweens = {}
  /\ time = 0
  /\ tents = <<>>
  /\ nextTentId = 1
  /\ ret = NoCall

\* what the TreeManager calls leave alone
TreesFrame ==
  UNCHANGED <<mapWidth, mapHeight, mapData, hasTreeManager, npcs, nextNpcId,
              lastSpawn, tweens, time, tents, nextTentId>>

\* treeManager.generateTrees(mapData, climate)
CallGenerateTrees(climate) ==
  /\ \E counts \in [GrassCells(mapData) -> calculateTreesForTile(climate)],
        offsetX \in randomOffsets(tileWidth, climate),
        offsetY \in randomOffsets(tileHeight, climate) :
       /\ trees' = generateTrees(trees, mapData, climate, counts, offsetX, offsetY)
       /\ ret' = [op |-> "generateTrees", climate |-> climate,
                  before |-> Len(trees),
                  created |-> treesFrom(1, <<>>, mapData, climate, counts,
                                        offsetX, offsetY)]
  /\ TreesFrame

\* treeManager.getTreesInRadius(mapX, mapY, radius)
CallGetTreesInRadius(mapX, mapY, radius) ==
  /\ ret' = [op |-> "getTreesInRadius", x |-> mapX, y |-> mapY, radius |-> radius,
             result |-> getTreesInRadius(trees, mapX, mapY, radius)]
  /\ UNCHANGED trees
  /\ TreesFrame

\* treeManager.removeTreesInRadius(mapX, mapY, radius)
CallRemoveTreesInRadius(mapX, mapY, radius) ==
  /\ LET r == removeTreesInRadius(trees, mapX, mapY, radius) IN
       /\ trees' = r.trees
       /\ ret' = [op |-> "removeTreesInRadius", x |-> mapX, y |-> mapY,
                  radius |-> radius, result |-> r.removedCount]
  /\ TreesFrame

\* the cells of removeTreeAt and getTreeAt calls: the planted cells and a
\* cell no tree is planted on
AtCells == PlantCells \cup { <<0, 1>> }

\* treeManager.removeTreeAt(mapX, mapY)
CallRemoveTreeAt(mapX, mapY) ==
  /\ LET r == removeTreeAt(trees, mapX, mapY) IN
       /\ trees' = r.trees
       /\ ret' = [op |-> "removeTreeAt", x |-> mapX, y |-> mapY, result |-> r.result]
  /\ TreesFrame

\* treeManager.getTreeAt(mapX, mapY)
CallGetTreeAt(mapX, mapY) ==
  /\ ret' = [op |-> "getTreeAt", x |-> mapX, y |-> mapY,
             result |-> getTreeAt(trees, mapX, mapY)]
  /\ UNCHANGED trees
  /\ TreesFrame

NextTrees ==
  \/ \E c \in AtCells : CallRemoveTreeAt(c[1], c[2])
  \/ \E c \in AtCells : CallGetTreeAt(c[1], c[2])
  \/ \E climate \in TreeClimates : CallGenerateTrees(climate)
  \/ \E c \in QueryCells, radius \in Radii : CallGetTreesInRadius(c[1], c[2], radius)
  \/ \E c \in QueryCells, radius \in Radii : CallRemoveTreesInRadius(c[1], c[2], radius)

SpecTrees == InitTrees /\ [][NextTrees]_vars

(***************************************************************************)
(* Terrain generation (src/js/terrain/terrain.js).  Noise values and       *)
(* thresholds are integers in hundredths: 55 is the noise value 0.55.      *)
(***************************************************************************)
\* Math.min / Math.max
Min(a, b) == IF a < b THEN a ELSE b
Max(a, b) == IF a > b THEN a ELSE b

\* CLIMATE_TILE_RULES; the thresholds of DESERT have no entry "grass"
CLIMATE_TILE_RULES ==
  [c \in CLIMATES |->
     CASE c = "desert" ->
            [forbidden |-> {GRASS}, primary |-> SAND, secondary |-> ROCK,
             thresholds |-> [sand |-> -60, rock |-> 30, snow |-> 80]]
       [] c = "prairie" ->
            [forbidden |-> {ROCK, SAND, SNOW}, primary |-> GRASS, secondary |-> GRASS,
             thresholds |-> [grass |-> -100, rock |-> 100, snow |-> 100]]
       [] c = "sparse_forest" ->
            [forbidden |-> {SAND}, primary |-> GRASS, secondary |-> ROCK,
             thresholds |-> [grass |-> -20, rock |-> 60, snow |-> 90]]
       [] c = "dense_forest" ->
            [forbidden |-> {SAND}, primary |-> GRASS, secondary |-> ROCK,
             thresholds |-> [grass |-> 20, rock |-> 70, snow |-> 90]]
       [] c = "high_mountain" ->
            [forbidden |-> {SAND}, primary |-> ROCK, secondary |-> SNOW,
             thresholds |-> [grass |-> -30, rock |-> 40, snow |-> 60]] ]

\* the threshold comparison made inclusive
belowThreshold_inclusive(noiseValue, thresholds, key) ==
  key \in DOMAIN thresholds /\ noiseValue <= thresholds[key]

\* JS: noiseValue < rules.thresholds[key]; the comparison with the undefined
\* value of a missing key is false
belowThreshold(noiseValue, thresholds, key) ==
  key \in DOMAIN thresholds /\ noiseValue < thresholds[key]

\* the cells of a width x height grid
Cells(width, height) == (0 .. width - 1) \X (0 .. height - 1)

\* the river walk without the clamp of currentX
RECURSIVE riverFrom_noClamp(_, _, _, _, _)
riverFrom_noClamp(width, height, currentX, currentY, steps) ==
  IF currentY >= height
    THEN {}
    ELSE { c \in { <<currentX + dx, currentY + dy>> : dx \in -1 .. 1, dy \in -1 .. 1 } :
             c[1] >= 0 /\ c[1] < width /\ c[2] >= 0 /\ c[2] < height }
         \cup riverFrom_noClamp(width, height, currentX + steps[currentY + 1],
                                currentY + 1, steps)

\* generateRiverPath from the position (currentX, currentY) on; steps[y + 1]
\* is the draw Math.floor(Math.random() * 3) - 1 of the iteration of row y
RECURSIVE riverFrom(_, _, _, _, _)
riverFrom(width, height, currentX, currentY, steps) ==
  IF currentY >= height
    THEN {}
    ELSE { c \in { <<currentX + dx, currentY + dy>> : dx \in -1 .. 1, dy \in -1 .. 1 } :
             c[1] >= 0 /\ c[1] < width /\ c[2] >= 0 /\ c[2] < height }
         \cup riverFrom(width, height,
                        Max(1, Min(width - 2, currentX + steps[currentY + 1])),
                        currentY + 1, steps)

\* the values of currentX in generateRiverPath: centres[y + 1] while row y is
\* carved, centres[height + 1] after the last advance
RECURSIVE riverCentres(_, _, _, _, _)
riverCentres(width, height, currentX, currentY, steps) ==
  IF currentY >= height
    THEN <<currentX>>
    ELSE <<currentX>> \o
         riverCentres(width, height,
                      Max(1, Min(width - 2, currentX + steps[currentY + 1])),
                      currentY + 1, steps)

\* generateRiverPath(width, height) for the draws startX and steps
generateRiverPath(width, height, startX, steps) ==
  riverFrom(width, height, startX, 0, steps)

\* the values of Math.floor(Math.random() * width)
StartXs(width) == IF width > 0 THEN 0 .. width - 1 ELSE width .. 0

\* the step draws followed: one step on even rows, one on odd rows
StepDraws(height) ==
  { [y \in 1 .. height |-> IF y % 2 = 1 THEN s1 ELSE s2] :
      s1 \in -1 .. 1, s2 \in -1 .. 1 }

\* the rivers generateRiverPath can return
Rivers(width, height) ==
  { generateRiverPath(width, height, startX, steps) :
      startX \in StartXs(width), steps \in StepDraws(height) }

\* the sequences of currentX values of the walks that carve the river
Walks(width, height, hasRiver, river) ==
  IF hasRiver
    THEN { riverCentres(width, height, d[1], 0, d[2]) :
             d \in { e \in StartXs(width) \X StepDraws(height) :
                       generateRiverPath(width, height, e[1], e[2]) = river } }
    ELSE {}

\* maxDepth and minDepth of generateCoastline
maxDepth(width, height) == (Min(width, height) * 3) \div 10
minDepth(width, height) == maxDepth(width, height) - 2

\* generateCoastline carving one cell more than the depth drawn
generateCoastline_oneDeeper(width, height, side, depths) ==
  CASE side = 0 ->
         UNION { { <<x, y>> : y \in 0 .. depths[x] } : x \in 0 .. width - 1 }
    [] side = 1 ->
         UNION { { <<x, y>> : x \in width - depths[y] - 1 .. width - 1 } : y \in 0 .. height - 1 }
    [] side = 2 ->
         UNION { { <<x, y>> : y \in height - depths[x] - 1 .. height - 1 } : x \in 0 .. width - 1 }
    [] side = 3 ->
         UNION { { <<x, y>> : x \in 0 .. depths[y] } : y \in 0 .. height - 1 }

\* generateCoastline(width, height) for the draws side and depths; depths[i]
\* is the depth drawn for column (or row) i
generateCoastline(width, height, side, depths) ==
  CASE side = 0 ->
         UNION { { <<x, y>> : y \in 0 .. depths[x] - 1 } : x \in 0 .. width - 1 }
    [] side = 1 ->
         UNION { { <<x, y>> : x \in width - depths[y] .. width - 1 } : y \in 0 .. height - 1 }
    [] side = 2 ->
         UNION { { <<x, y>> : y \in height - depths[x] .. height - 1 } : x \in 0 .. width - 1 }
    [] side = 3 ->
         UNION { { <<x, y>> : x \in 0 .. depths[y] - 1 } : y \in 0 .. height - 1 }

\* the depth draws followed: one depth on even indices, one on odd indices,
\* both between minDepth and maxDepth
DepthDraws(width, height) ==
  { [i \in 0 .. Max(width, height) - 1 |-> IF i % 2 = 0 THEN d1 ELSE d2] :
      d1 \in minDepth(width, height) .. maxDepth(width, height),
      d2 \in minDepth(width, height) .. maxDepth(width, height) }

\* the coastlines generateCoastline can return
Coastlines(width, height) ==
  { generateCoastline(width, height, side, depths) :
      side \in 0 .. 3, depths \in DepthDraws(width, height) }

\* isNearFeature(x, y, featureSet, distance)
isNearFeature(x, y, featureSet, distance) ==
  \E dx \in -distance .. distance, dy \in -distance .. distance :
    <<x + dx, y + dy>> \in featureSet

\* getTileHeightForType with the two levels of ROCK swapped
getTileHeightForType_swapped(tileType, noiseValue) ==
  CASE tileType = ROCK -> IF noiseValue > 50 THEN 1 ELSE 2
    [] tileType = SNOW -> 2
    [] OTHER -> 0

\* getTileHeightForType over TILE_HEIGHTS: ROCK has the levels [1, 2], SNOW is
\* at level 2, the other types at level 0
getTileHeightForType(tileType, noiseValue) ==
  CASE tileType = ROCK -> IF noiseValue > 50 THEN 2 ELSE 1
    [] tileType = SNOW -> 2
    [] OTHER -> 0

\* the climate-based tile selection of getTileForClimate, before the forbidden
\* rule
selectByNoise(noiseValue, rules) ==
  IF belowThreshold(noiseValue, rules.thresholds, "grass") THEN rules.primary
  ELSE IF belowThreshold(noiseValue, rules.thresholds, "rock") THEN GRASS
  ELSE IF belowThreshold(noiseValue, rules.thresholds, "snow") THEN ROCK
  ELSE SNOW

\* getTileForClimate without the forbidden rule
getTileForClimate_noForbidden(noiseValue, climate, x, y, river, coastline) ==
  LET rules == CLIMATE_TILE_RULES[climate] IN
  IF <<x, y>> \in river THEN WATER
  ELSE IF <<x, y>> \in coastline THEN WATER
  ELSE IF isNearFeature(x, y, coastline, 1) THEN SAND
  ELSE IF isNearFeature(x, y, river, 1) /\ climate \in {"desert", "prairie"} THEN SAND
  ELSE selectByNoise(noiseValue, rules)

\* getTileForClimate putting sand up to two cells from the coastline
getTileForClimate_wideBeach(noiseValue, climate, x, y, river, coastline) ==
  LET rules == CLIMATE_TILE_RULES[climate] IN
  IF <<x, y>> \in river THEN WATER
  ELSE IF <<x, y>> \in coastline THEN WATER
  ELSE IF isNearFeature(x, y, coastline, 2) THEN SAND
  ELSE IF isNearFeature(x, y, river, 1) /\ climate \in {"desert", "prairie"} THEN SAND
  ELSE LET tileType == selectByNoise(noiseValue, rules) IN
       IF tileType \in rules.forbidden
         THEN IF noiseValue > 0 THEN rules.secondary ELSE rules.primary
         ELSE tileType

\* getTileForClimate without the coastline's water
getTileForClimate_dryCoast(noiseValue, climate, x, y, river, coastline) ==
  LET rules == CLIMATE_TILE_RULES[climate] IN
  IF <<x, y>> \in river THEN WATER
  ELSE IF isNearFeature(x, y, coastline, 1) THEN SAND
  ELSE IF isNearFeature(x, y, river, 1) /\ climate \in {"desert", "prairie"} THEN SAND
  ELSE LET tileType == selectByNoise(noiseValue, rules) IN
       IF tileType \in rules.forbidden
         THEN IF noiseValue > 0 THEN rules.secondary ELSE rules.primary
         ELSE tileType

\* getTileForClimate putting sand next to the river in the forests too
getTileForClimate_forestRiverSand(noiseValue, climate, x, y, river, coastline) ==
  LET rules == CLIMATE_TILE_RULES[climate] IN
  IF <<x, y>> \in river THEN WATER
  ELSE IF <<x, y>> \in coastline THEN WATER
  ELSE IF isNearFeature(x, y, coastline, 1) THEN SAND
  ELSE IF /\ isNearFeature(x, y, river, 1)
          /\ climate \in {"desert", "prairie", "sparse_forest", "dense_forest"}
    THEN SAND
  ELSE LET tileType == selectByNoise(noiseValue, rules) IN
       IF tileType \in rules.forbidden
         THEN IF noiseValue > 0 THEN rules.secondary ELSE rules.primary
         ELSE tileType

\* getTileForClimate putting sand next to the river in every climate
getTileForClimate_riverBeach(noiseValue, climate, x, y, river, coastline) ==
  LET rules == CLIMATE_TILE_RULES[climate] IN
  IF <<x, y>> \in river THEN WATER
  ELSE IF <<x, y>> \in coastline THEN WATER
  ELSE IF isNearFeature(x, y, coastline, 1) THEN SAND
  ELSE IF isNearFeature(x, y, river, 1) THEN SAND
  ELSE LET tileType == selectByNoise(noiseValue, rules) IN
       IF tileType \in rules.forbidden
         THEN IF noiseValue > 0 THEN rules.secondary ELSE rules.primary
         ELSE tileType

\* getTileForClimate
getTileForClimate(noiseValue, climate, x, y, river, coastline) ==
  LET rules == CLIMATE_TILE_RULES[climate] IN
  IF <<x, y>> \in river THEN WATER
  ELSE IF <<x, y>> \in coastline THEN WATER
  ELSE IF isNearFeature(x, y, coastline, 1) THEN SAND
  ELSE IF isNearFeature(x, y, river, 1) /\ climate \in {"desert", "prairie"} THEN SAND
  ELSE LET tileType == selectByNoise(noiseValue, rules) IN
       IF tileType \in rules.forbidden
         THEN IF noiseValue > 0 THEN rules.secondary ELSE rules.primary
         ELSE tileType

\* generateMap(width, height) for the outcome of its random choices: climate,
\* hasRiver, hasCoastline, the carved river and coastline (empty when absent)
\* and the noise value of every cell.  The function has no throw statement
\* and no step of it raises, so it always returns.
generateMap(width, height, climate, hasRiver, hasCoastline, river, coastline, noise2D) ==
  [threw |-> FALSE,
   map |-> [y \in 1 .. height |->
             [x \in 1 .. width |->
                LET noiseValue == noise2D[<<x - 1, y - 1>>]
                    tileType == getTileForClimate(noiseValue, climate, x - 1, y - 1,
                                                  river, coastline)
                IN Tile(tileType, getTileHeightForType(tileType, noiseValue))]],
   metadata |-> [climate |-> climate, hasRiver |-> hasRiver,
                 hasCoastline |-> hasCoastline]]

\* noise values sampled from [-1, 1]: both ends and a value on each side of
\* the thresholds that separate tile types and rock levels
NoiseLevels == {-100, -40, 0, 10, 50, 55, 70, 100}

\* the noise fields followed: one level on even cells, one on odd cells
NoiseFields(width, height) ==
  { [c \in Cells(width, height) |-> IF (c[1] + c[2]) % 2 = 0 THEN a ELSE b] :
      a \in NoiseLevels, b \in NoiseLevels }

\* the sizes generateMap is called with: every width and height from -1 to
\* SmallSide, and a square large enough for a coastline to reach inland
TerrainSizes ==
  ((-1 .. SmallSide) \X (-1 .. SmallSide)) \cup {<<CoastSide, CoastSide>>}

\* before the scene is created nothing exists
InitTerrain ==
  /\ mapWidth = 0
  /\ mapHeight = 0
  /\ mapData = <<>>
  /\ hasTreeManager = FALSE
  /\ trees = <<>>
  /\ npcs = <<>>
  /\ nextNpcId = 1
  /\ lastSpawn = 0
  /\ tweens = {}
  /\ time = 0
  /\ tents = <<>>
  /\ nextTentId = 1
  /\ ret = NoCall

\* the one call of generateMap(width, height) the scene makes
GenerateMap(width, height) ==
  /\ ret = NoCall
  /\ \E climate \in CLIMATES, hasRiver \in BOOLEAN, hasCoastline \in BOOLEAN :
       \E river \in (IF hasRiver THEN Rivers(width, height) ELSE {{}}) :
       \E walks \in {Walks(width, height, hasRiver, river)},
          coastline \in (IF hasCoastline THEN Coastlines(width, height) ELSE {{}}),
          noise2D \in NoiseFields(width, height) :
         ret' = [op |-> "generateMap", width |-> width, height |-> height,
                 river |-> river, walks |-> walks,
                 coastline |-> coastline, noise |-> noise2D,
                 result |-> generateMap(width, height, climate, hasRiver,
                                        hasCoastline, river, coastline, noise2D)]
  /\ UNCHANGED <<mapWidth, mapHeight, mapData, hasTreeManager, trees, npcs,
                 nextNpcId, lastSpawn, tweens, time, tents, nextTentId>>

\* the noise values of direct calls: a grid over [-1, 1]
NoiseGrid ==
  { (100 * k) \div NoiseGridHalf : k \in -NoiseGridHalf .. NoiseGridHalf }

\* getTileForClimate(noiseValue, climate, 0, 0, river, coastline) called with
\* empty feature sets, outside a map generation
CallGetTileForClimate(noiseValue, climate) ==
  /\ ret.op # "generateMap"
  /\ ret' = [op |-> "getTileForClimate", noise |-> noiseValue, climate |-> climate,
             result |-> getTileForClimate(noiseValue, climate, 0, 0, {}, {})]
  /\ UNCHANGED <<mapWidth, mapHeight, mapData, hasTreeManager, trees, npcs,
                 nextNpcId, lastSpawn, tweens, time, tents, nextTentId>>

\* the sizes of direct river calls: the narrowest grids the clamp of the walk
\* fits in, one row and more
RiverSizes == (3 .. WalkSide) \X (1 .. WalkSide)

\* generateRiverPath(width, height) called on its own
CallGenerateRiverPath(width, height) ==
  /\ ret = NoCall
  /\ \E river \in Rivers(width, height) :
       ret' = [op |-> "generateRiverPath", width |-> width, height |-> height,
               river |-> river, walks |-> Walks(width, height, TRUE, river)]
  /\ UNCHANGED <<mapWidth, mapHeight, mapData, hasTreeManager, trees, npcs,
                 nextNpcId, lastSpawn, tweens, time, tents, nextTentId>>

\* the sizes of direct coastline calls: grids whose coastline is up to two
\* and three cells deep
ShoreSizes == (7 .. ShoreSide) \X (7 .. ShoreSide)

\* generateCoastline(width, height) called on its own
CallGenerateCoastline(width, height) ==
  /\ ret = NoCall
  /\ \E side \in 0 .. 3, depths \in DepthDraws(width, height) :
       ret' = [op |-> "generateCoastline", width |-> width, height |-> height,
               side |-> side,
               coastline |-> generateCoastline(width, height, side, depths)]
  /\ UNCHANGED <<mapWidth, mapHeight, mapData, hasTreeManager, trees, npcs,
                 nextNpcId, lastSpawn, tweens, time, tents, nextTentId>>

NextTerrain ==
  \/ \E size \in TerrainSizes : GenerateMap(size[1], size[2])
  \/ \E noiseValue \in NoiseGrid, climate \in CLIMATES :
       CallGetTileForClimate(noiseValue, climate)
  \/ \E size \in RiverSizes : CallGenerateRiverPath(size[1], size[2])
  \/ \E size \in ShoreSizes : CallGenerateCoastline(size[1], size[2])

SpecTerrain == InitTerrain /\ [][NextTerrain]_vars

(***************************************************************************)
(* Properties of the NPC simulation                                        *)
(***************************************************************************)
\* ids of the NPCs in a population
Live(ns) == { ns[i].id : i \in DOMAIN ns }

\* the NPC with the given id
ById(ns, id) == ns[CHOOSE i \in DOMAIN ns : ns[i].id = id]

\* NPCs present before and after a step
Staying == Live(npcs) \cap Live(npcs')

\* the step is an update tick
IsTick == time' # time

\* tweens the step added for the NPC / tweens of the NPC the step completed
StartedFor(id) == { tw \in tweens' \ tweens : tw.npc = id }
CompletedFor(id) == { tw \in tweens \ tweens' : tw.npc = id }

SameCell(a, b) == a.mapX = b.mapX /\ a.mapY = b.mapY

\* none of the 4 neighbours of the NPC's cell is a valid position
NoValidNeighbour(npc) ==
  \A i \in DOMAIN directions :
    ~isValidPosition(npc.mapX + directions[i].dx, npc.mapY + directions[i].dy)

\* a tree is registered on the cell
TreeOnCell(mapX, mapY) ==
  \E k \in DOMAIN trees : trees[k].mapX = mapX /\ trees[k].mapY = mapY

\* C1: once an NPC is PLACE_FOUND its cell never changes and no move is
\* started for it, the step in which it settles included.
C1_SettledStaysPut ==
  [][ \A id \in Staying :
        ById(npcs', id).state = PLACE_FOUND =>
          /\ SameCell(ById(npcs, id), ById(npcs', id))
          /\ StartedFor(id) = {} ]_vars

\* C2: an NPC's state is SEARCHING or PLACE_FOUND, a new NPC is SEARCHING,
\* and a PLACE_FOUND NPC stays PLACE_FOUND in every step.
C2_StateMachine ==
  [][ /\ \A i \in DOMAIN npcs' : npcs'[i].state \in {SEARCHING, PLACE_FOUND}
      /\ \A id \in Live(npcs') \ Live(npcs) : ById(npcs', id).state = SEARCHING
      /\ \A id \in Staying :
           ById(npcs, id).state = PLACE_FOUND => ById(npcs', id).state = PLACE_FOUND
    ]_vars

\* a settled NPC that has seen a later tick
C2_Witness ==
  \E i \in DOMAIN npcs :
    npcs[i].state = PLACE_FOUND /\ time > npcs[i].lastStateCheck

\* C3: every live NPC's cell is inside the grid, on a SAND or GRASS tile.
C3_OnWalkableTile ==
  \A i \in DOMAIN npcs :
    /\ npcs[i].mapX >= 0 /\ npcs[i].mapX < mapWidth
    /\ npcs[i].mapY >= 0 /\ npcs[i].mapY < mapHeight
    /\ TileAt(mapData, npcs[i].mapX, npcs[i].mapY).type \in {SAND, GRASS}

\* an NPC that walked from its entry point to a cell off the border
C3_Witness ==
  \E i \in DOMAIN npcs : <<npcs[i].mapX, npcs[i].mapY>> \notin borderPositions

\* the NPCs a step takes from SEARCHING to PLACE_FOUND
Settling ==
  { id \in Staying : /\ ById(npcs, id).state = SEARCHING
                     /\ ById(npcs', id).state = PLACE_FOUND }

\* C4: a step in which NPCs settle adds one tent per settling NPC to the tent
\* registry, at or next to the NPC's cell.
C4_TentOnSettle ==
  [][ Settling # {} =>
        /\ Len(tents') = Len(tents) + Cardinality(Settling)
        /\ \A id \in Settling :
             \E k \in (Len(tents) + 1) .. Len(tents') :
               /\ tents'[k].mapX - ById(npcs, id).mapX \in -1 .. 1
               /\ tents'[k].mapY - ById(npcs, id).mapY \in -1 .. 1 ]_vars

\* C5: a SEARCHING, not moving NPC on a GRASS tile with a tree registered on
\* its cell is PLACE_FOUND after the tick that checks its position.
C5_SettlesOnTreeCell ==
  [][ \A id \in Staying :
        LET a == ById(npcs, id) IN
          ( /\ IsTick
            /\ hasTreeManager
            /\ a.state = SEARCHING /\ ~a.isMoving
            /\ time' - a.lastStateCheck >= stateCheckInterval
            /\ TileAt(mapData, a.mapX, a.mapY).type = GRASS
            /\ TreeOnCell(a.mapX, a.mapY) )
          => ById(npcs', id).state = PLACE_FOUND ]_vars

\* C6: with an empty tree registry, or without a tree manager, every NPC is
\* SEARCHING.
C6_NoTreesNoSettling ==
  (trees = <<>> \/ ~hasTreeManager) =>
    \A i \in DOMAIN npcs : npcs[i].state = SEARCHING

\* an NPC on a GRASS tile whose position was checked against an empty registry
C6_Witness ==
  /\ trees = <<>>
  /\ hasTreeManager
  /\ \E i \in DOMAIN npcs :
       /\ npcs[i].lastStateCheck > 0
       /\ TileAt(mapData, npcs[i].mapX, npcs[i].mapY).type = GRASS

\* C7: a tick leaves a moving NPC as it is (no position check, no move), and
\* no NPC ever has two tweens in flight.
C7_MoveNotInterrupted ==
  [][ /\ \A id \in Staying :
           (IsTick /\ ById(npcs, id).isMoving) =>
             /\ ById(npcs', id) = ById(npcs, id)
             /\ StartedFor(id) = {}
      /\ \A tw1, tw2 \in tweens' : tw1.npc = tw2.npc => tw1 = tw2 ]_vars

\* a moving NPC that has seen a tick after the one that started its move
C7_Witness ==
  \E i \in DOMAIN npcs :
    /\ npcs[i].isMoving
    /\ time > npcs[i].lastMove
    /\ \E tw \in tweens : tw.npc = npcs[i].id

\* C8: a started tween targets a valid 4-neighbour of the NPC's cell; a moving
\* NPC keeps its cell and its moving flag until its tween completes, and the
\* completion sets the cell to the target and clears the flag; a cell changes
\* in no other way.
C8_MoveCommitsOnCompletion ==
  [][ \A id \in Staying :
        LET a == ById(npcs, id)
            b == ById(npcs', id)
        IN /\ \A tw \in StartedFor(id) :
                /\ <<tw.newMapX - a.mapX, tw.newMapY - a.mapY>>
                     \in { <<0, -1>>, <<1, 0>>, <<0, 1>>, <<-1, 0>> }
                /\ isValidPosition(tw.newMapX, tw.newMapY)
                /\ SameCell(a, b) /\ b.isMoving
           /\ \A tw \in CompletedFor(id) :
                b.mapX = tw.newMapX /\ b.mapY = tw.newMapY /\ ~b.isMoving
           /\ (a.isMoving /\ CompletedFor(id) = {}) => (SameCell(a, b) /\ b.isMoving)
           /\ ~SameCell(a, b) => CompletedFor(id) # {} ]_vars

\* an NPC whose move was started and has completed
C8_Witness ==
  \E i \in DOMAIN npcs :
    /\ npcs[i].lastMove > 0
    /\ ~npcs[i].isMoving
    /\ ~NoValidNeighbour(npcs[i])
    /\ <<npcs[i].mapX, npcs[i].mapY>> \notin borderPositions

\* C9: when an NPC's move is due and none of its 4 neighbours is valid, the
\* tick starts no tween for it, leaves it not moving and leaves its cell.
C9_NoValidMoveIsNoOp ==
  [][ \A id \in Staying :
        LET a == ById(npcs, id)
            b == ById(npcs', id)
        IN ( /\ IsTick
             /\ a.state = SEARCHING /\ ~a.isMoving
             /\ time' - a.lastMove >= moveSpeed
             /\ NoValidNeighbour(a) )
           => /\ StartedFor(id) = {}
              /\ ~b.isMoving
              /\ SameCell(a, b) ]_vars

\* an NPC whose move was attempted on a cell without valid neighbours
C9_Witness ==
  \E i \in DOMAIN npcs :
    /\ npcs[i].lastMove > 0
    /\ NoValidNeighbour(npcs[i])
    /\ ~npcs[i].isMoving

\* C10: isValidPosition is false for coordinates outside the configured grid,
\* for cells without tile data and for WATER, ROCK and SNOW tiles, and true
\* for SAND and GRASS tiles inside the grid whatever their height.
C10_IsValidPosition ==
  ret.op = "isValidPosition" =>
    LET tile == TileAt(mapData, ret.x, ret.y)
        inside == /\ ret.x >= 0 /\ ret.x < mapWidth
                  /\ ret.y >= 0 /\ ret.y < mapHeight
    IN /\ ~inside => ~ret.result
       /\ tile = NoTile => ~ret.result
       /\ tile.type \in {WATER, ROCK, SNOW} => ~ret.result
       /\ (inside /\ tile.type \in {SAND, GRASS}) => ret.result

\* a raised SAND or GRASS tile reported valid
C10_Witness ==
  /\ ret.op = "isValidPosition"
  /\ ret.result
  /\ TileAt(mapData, ret.x, ret.y).height > 0

\* the ids of the NPCs a step creates
Spawned == Live(npcs') \ Live(npcs)

\* the cell is on the outer ring of the grid
OnBorder(mapX, mapY) ==
  /\ mapX \in 0 .. mapWidth - 1 /\ mapY \in 0 .. mapHeight - 1
  /\ mapX = 0 \/ mapX = mapWidth - 1 \/ mapY = 0 \/ mapY = mapHeight - 1

\* no cell of the outer ring holds a tile other than WATER, ROCK and SNOW
NoEntryPoint ==
  \A x \in 0 .. mapWidth - 1, y \in 0 .. mapHeight - 1 :
    OnBorder(x, y) =>
      \/ ~HasTile(mapData, x, y)
      \/ TileAt(mapData, x, y).type \in {WATER, ROCK, SNOW}

\* the step makes a spawn attempt: NPCManager.update stamps lastSpawn with the
\* tick's time right after calling spawnNPC
SpawnAttempt == IsTick /\ lastSpawn' = time'

\* C12: every NPC a step creates is on a cell of the outer ring of the grid
\* whose tile type is not WATER, ROCK or SNOW.
C12_SpawnOnValidBorder ==
  [][ \A id \in Spawned :
        LET n == ById(npcs', id) IN
          /\ OnBorder(n.mapX, n.mapY)
          /\ HasTile(mapData, n.mapX, n.mapY)
          /\ TileAt(mapData, n.mapX, n.mapY).type \notin {WATER, ROCK, SNOW} ]_vars

\* a freshly spawned NPC on a grid that also has interior and invalid border
\* cells
C12_Witness ==
  /\ mapWidth = 3 /\ mapHeight = 3
  /\ \E i \in DOMAIN npcs :
       /\ npcs[i].lastStateCheck = 0
       /\ lastSpawn = time
       /\ OnBorder(npcs[i].mapX, npcs[i].mapY)

\* C13: on a map without entry point a tick (spawn attempt included) leaves
\* the population and the id counter as they are, and a later tick can
\* always be taken.
C13_FailedSpawnIsNoOp ==
  /\ [][ (IsTick /\ NoEntryPoint) =>
           /\ Live(npcs') = Live(npcs)
           /\ Len(npcs') = Len(npcs)
           /\ nextNpcId' = nextNpcId ]_vars
  /\ []( (NoEntryPoint /\ time < Horizon) =>
           ENABLED Tick(Horizon) )

\* a tick taken after a failed spawn attempt
C13_Witness ==
  /\ NoEntryPoint
  /\ lastSpawn >= spawnInterval
  /\ time > lastSpawn
  /\ npcs = <<>> /\ nextNpcId = 1

\* C14: the population never exceeds maxNpcs, a step creates at most one NPC,
\* and NPCs are created and spawn attempts made only by a tick below capacity
\* that comes at least spawnInterval after the last attempt.
C14_SpawnCadence ==
  [][ /\ Len(npcs') <= maxNpcs
      /\ Cardinality(Spawned) <= 1
      /\ (Spawned # {} \/ lastSpawn' # lastSpawn) =>
           /\ IsTick
           /\ Len(npcs) < maxNpcs
           /\ time' - lastSpawn >= spawnInterval ]_vars

\* the population is at capacity and a tick has come spawnInterval after the
\* last spawn
C14_Witness ==
  /\ Len(npcs) = maxNpcs
  /\ time - lastSpawn >= spawnInterval

\* C15: the tick that follows a failed spawn attempt makes a spawn attempt.
C15_FailedSpawnRetriedNextTick ==
  [][ ( /\ IsTick
        /\ NoEntryPoint
        /\ lastSpawn = time /\ time > 0
        /\ Len(npcs) < maxNpcs )
      => SpawnAttempt ]_vars

\* C11: isNicePlace is false for coordinates outside the grid, for cells
\* without tile data and for WATER, ROCK and SNOW tiles, trees registered there
\* or not; on a SAND or GRASS tile inside the grid it is true exactly when the
\* registry's radius query around the cell is non-empty.
C11_IsNicePlace ==
  ret.op = "isNicePlace" =>
    LET tile == TileAt(mapData, ret.x, ret.y)
        inside == /\ ret.x >= 0 /\ ret.x < mapWidth
                  /\ ret.y >= 0 /\ ret.y < mapHeight
    IN /\ ~inside => ~ret.result
       /\ tile = NoTile => ~ret.result
       /\ tile.type \in {WATER, ROCK, SNOW} => ~ret.result
       /\ (inside /\ tile.type \in {SAND, GRASS}) =>
            (ret.result <=>
               getTreesInRadius(trees, ret.x, ret.y, nearbyRadius) # <<>>)

\* a WATER, ROCK or SNOW tile with a tree at its centre reported not nice
C11_Witness ==
  /\ ret.op = "isNicePlace"
  /\ ~ret.result
  /\ TileAt(mapData, ret.x, ret.y).type \in {WATER, ROCK, SNOW}
  /\ ret.x >= 0 /\ ret.x < mapWidth /\ ret.y >= 0 /\ ret.y < mapHeight
  /\ getTreesInRadius(trees, ret.x, ret.y, nearbyRadius) # <<>>

(***************************************************************************)
(* Properties of terrain generation                                        *)
(***************************************************************************)
\* a map was generated
Generated == ret.op = "generateMap"

\* the tiles of the generated map, each with its cell
GenTiles ==
  LET m == ret.result.map IN
  { [x |-> x - 1, y |-> y - 1, tile |-> m[y][x]] :
      y \in DOMAIN m, x \in UNION { DOMAIN m[r] : r \in DOMAIN m } }

\* C16: a generated map has height rows of width tiles; every tile has one of
\* the five types; SNOW has height 2, ROCK has height 1 when its noise value
\* is at most 0.5 and 2 otherwise, WATER, SAND and GRASS have height 0.
C16_TypesAndHeights ==
  (Generated /\ ret.width >= 0 /\ ret.height >= 0) =>
    LET m == ret.result.map IN
      /\ Len(m) = ret.height
      /\ \A y \in DOMAIN m : Len(m[y]) = ret.width
      /\ \A y \in DOMAIN m : \A x \in DOMAIN m[y] :
           LET tile == m[y][x]
               noiseValue == ret.noise[<<x - 1, y - 1>>]
           IN /\ tile.type \in TILE_TYPES
              /\ tile.type = SNOW => tile.height = 2
              /\ tile.type = ROCK =>
                   /\ tile.height \in {1, 2}
                   /\ tile.height = 1 <=> noiseValue <= 50
              /\ tile.type \in {WATER, SAND, GRASS} => tile.height = 0

\* a map that is not square, with rock of both levels
C16_Witness ==
  /\ Generated
  /\ ret.width # ret.height
  /\ \E t1 \in GenTiles, t2 \in GenTiles :
       /\ t1.tile = Tile(ROCK, 1)
       /\ t2.tile = Tile(ROCK, 2)

\* C17: a map of positive width and height generated with a river or a
\* coastline holds a WATER tile.
C17_WaterWhenFeature ==
  ( /\ Generated
    /\ ret.width >= 1 /\ ret.height >= 1
    /\ ret.result.metadata.hasRiver \/ ret.result.metadata.hasCoastline )
  => \E t \in GenTiles : t.tile.type = WATER

\* C18: generateMap called with a width or a height that is zero or negative
\* throws.
C18_RejectsBadDimensions ==
  (Generated /\ (ret.width <= 0 \/ ret.height <= 0)) => ret.result.threw

\* C19: a map generated with climate DESERT has no GRASS tile.
C19_DesertHasNoGrass ==
  (Generated /\ ret.result.metadata.climate = "desert") =>
    \A t \in GenTiles : t.tile.type # GRASS

\* a desert map with a coastline and, away from it, a cell whose noise value
\* is below the rock threshold and that became ROCK
C19_Witness ==
  /\ Generated
  /\ ret.result.metadata.climate = "desert"
  /\ ret.coastline # {}
  /\ \E t \in GenTiles :
       /\ t.tile.type = ROCK
       /\ ret.noise[<<t.x, t.y>>] < 30

\* C20: a map generated with climate PRAIRIE has no ROCK and no SNOW tile,
\* each of its SAND tiles has a WATER tile among its 8 neighbours, and
\* without river and coastline all its tiles are GRASS.
C20_Prairie ==
  (Generated /\ ret.result.metadata.climate = "prairie") =>
    /\ \A t \in GenTiles : t.tile.type \notin {ROCK, SNOW}
    /\ \A t \in GenTiles :
         t.tile.type = SAND =>
           \E n \in GenTiles :
             /\ n.tile.type = WATER
             /\ n.x - t.x \in -1 .. 1 /\ n.y - t.y \in -1 .. 1
             /\ <<n.x, n.y>> # <<t.x, t.y>>
    /\ (~ret.result.metadata.hasRiver /\ ~ret.result.metadata.hasCoastline) =>
         \A t \in GenTiles : t.tile.type = GRASS

\* a prairie map with a coastline, sand next to it and grass further inland
C20_Witness ==
  /\ Generated
  /\ ret.result.metadata.climate = "prairie"
  /\ ret.coastline # {}
  /\ \E t1 \in GenTiles, t2 \in GenTiles :
       t1.tile.type = SAND /\ t2.tile.type = GRASS

\* the cell is in the river or in the coastline of the generated map
InFeature(x, y) == <<x, y>> \in ret.river \cup ret.coastline

\* some cell of the feature set is at Chebyshev distance at most 1
Within1(x, y, featureSet) ==
  \E c \in featureSet : c[1] - x \in -1 .. 1 /\ c[2] - y \in -1 .. 1

\* C21: a tile of a generated map is WATER exactly when its cell is in the
\* river or the coastline; a map generated without river and coastline has no
\* WATER tile.
C21_WaterIffFeature ==
  Generated =>
    /\ \A t \in GenTiles : t.tile.type = WATER <=> InFeature(t.x, t.y)
    /\ (~ret.result.metadata.hasRiver /\ ~ret.result.metadata.hasCoastline) =>
         \A t \in GenTiles : t.tile.type # WATER

\* a map with river cells, coastline cells outside the river and dry cells
C21_Witness ==
  /\ Generated
  /\ ret.river # {}
  /\ ret.coastline \ ret.river # {}
  /\ \E t \in GenTiles : ~InFeature(t.x, t.y)

\* C22: a cell outside both features is SAND in every climate when a coastline
\* cell is within distance 1; otherwise, with a river cell within distance 1,
\* it is SAND when the climate is DESERT or PRAIRIE and has the tile its noise
\* value selects (never SAND) in the other climates.
C22_SandNearFeatures ==
  Generated =>
    \A t \in GenTiles :
      ~InFeature(t.x, t.y) =>
        LET climate == ret.result.metadata.climate IN
        IF Within1(t.x, t.y, ret.coastline)
          THEN t.tile.type = SAND
        ELSE IF Within1(t.x, t.y, ret.river)
          THEN IF climate \in {"desert", "prairie"}
                 THEN t.tile.type = SAND
                 ELSE /\ t.tile.type # SAND
                      /\ t.tile.type =
                           getTileForClimate(ret.noise[<<t.x, t.y>>], climate,
                                             t.x, t.y, {}, {})
        ELSE TRUE

\* a map of a climate that forbids SAND with sand next to the coastline and a
\* cell next to the river only
C22_Witness ==
  /\ Generated
  /\ ret.result.metadata.climate \in {"sparse_forest", "dense_forest", "high_mountain"}
  /\ \E t1 \in GenTiles, t2 \in GenTiles :
       /\ ~InFeature(t1.x, t1.y) /\ Within1(t1.x, t1.y, ret.coastline)
       /\ t1.tile.type = SAND
       /\ ~InFeature(t2.x, t2.y) /\ ~Within1(t2.x, t2.y, ret.coastline)
       /\ Within1(t2.x, t2.y, ret.river)

\* the climate rule table of the specification, in hundredths
SpecRuleTable ==
  [c \in CLIMATES |->
     CASE c = "desert" ->
            [forbidden |-> {GRASS}, primary |-> SAND, secondary |-> ROCK,
             grass |-> -60, rock |-> 30, snow |-> 80]
       [] c = "prairie" ->
            [forbidden |-> {ROCK, SAND, SNOW}, primary |-> GRASS, secondary |-> GRASS,
             grass |-> -100, rock |-> 100, snow |-> 100]
       [] c = "sparse_forest" ->
            [forbidden |-> {SAND}, primary |-> GRASS, secondary |-> ROCK,
             grass |-> -20, rock |-> 60, snow |-> 90]
       [] c = "dense_forest" ->
            [forbidden |-> {SAND}, primary |-> GRASS, secondary |-> ROCK,
             grass |-> 20, rock |-> 70, snow |-> 90]
       [] c = "high_mountain" ->
            [forbidden |-> {SAND}, primary |-> ROCK, secondary |-> SNOW,
             grass |-> -30, rock |-> 40, snow |-> 60] ]

\* steps 5 and 6 of the specification's classifier over its rule table
SpecClassify(noiseValue, climate) ==
  LET r == SpecRuleTable[climate]
      selected == IF noiseValue < r.grass THEN r.primary
                  ELSE IF noiseValue < r.rock THEN GRASS
                  ELSE IF noiseValue < r.snow THEN ROCK
                  ELSE SNOW
  IN IF selected \in r.forbidden
       THEN IF noiseValue > 0 THEN r.secondary ELSE r.primary
       ELSE selected

\* C23: for every climate and noise value, getTileForClimate away from all
\* features returns the tile of the specification's steps 5 and 6 over the
\* specification's rule table.
C23_ClassifierMatchesTable ==
  ret.op = "getTileForClimate" => ret.result = SpecClassify(ret.noise, ret.climate)

\* a DESERT call below -0.6, where the specification's table has a grass
\* threshold and the code's table has none
C23_Witness ==
  /\ ret.op = "getTileForClimate"
  /\ ret.climate = "desert"
  /\ ret.noise < -60
  /\ ret.result = SAND

(***************************************************************************)
(* Properties of the registries                                            *)
(***************************************************************************)
\* C24: in each of the three registries, removing an id that is not present
\* returns false and leaves the collection as it is, and clear-all leaves the
\* collection empty, whether it held objects or was empty already.
C24_AbsentRemoveAndClear ==
  [][ /\ (ret'.op = "removeNPC" /\ ~found(npcs, ret'.id)) =>
           (~ret'.result /\ npcs' = npcs)
      /\ (ret'.op = "removeTreeById" /\ ~found(trees, ret'.id)) =>
           (~ret'.result /\ trees' = trees)
      /\ (ret'.op = "removeTent" /\ ~found(tents, ret'.id)) =>
           (~ret'.result /\ tents' = tents)
      /\ ret'.op = "clearAllNPCs" => Len(npcs') = 0
      /\ ret'.op = "clearAllTrees" => Len(trees') = 0
      /\ ret'.op = "clearAllTents" => Len(tents') = 0 ]_vars

\* the three registries hold an object each and the latest call was the
\* removal of an id that no NPC has
C24_Witness ==
  /\ npcs # <<>> /\ trees # <<>> /\ tents # <<>>
  /\ ret.op = "removeNPC"
  /\ ~ret.result

\* the cell is inside the configured grid and the map holds a tile for it
TentCellOk(x, y) ==
  /\ x >= 0 /\ x < mapWidth /\ y >= 0 /\ y < mapHeight
  /\ HasTile(mapData, x, y)

\* C25: createTent(x, y) outside the grid or on a cell without tile data
\* returns null and leaves the tents and the id counter; on any other cell it
\* appends exactly one tent, at (x, y), and returns it.
C25_CreateTent ==
  [][ ret'.op = "createTent" =>
        IF TentCellOk(ret'.x, ret'.y)
          THEN /\ ret'.result
               /\ Len(tents') = Len(tents) + 1
               /\ SubSeq(tents', 1, Len(tents)) = tents
               /\ tents'[Len(tents')].mapX = ret'.x
               /\ tents'[Len(tents')].mapY = ret'.y
          ELSE /\ ~ret'.result
               /\ tents' = tents
               /\ nextTentId' = nextTentId ]_vars

\* a tent was created, and the latest call, for the cell inside the grid that
\* has no tile data, returned null
C25_Witness ==
  /\ tents # <<>>
  /\ ret.op = "createTent"
  /\ ~ret.result
  /\ ret.x >= 0 /\ ret.x < mapWidth /\ ret.y >= 0 /\ ret.y < mapHeight
  /\ ~HasTile(mapData, ret.x, ret.y)

\* C26: spawnTree with coordinates outside the grid returns null and leaves
\* the number of trees as it was.
C26_SpawnTreeOutside ==
  [][ ( /\ ret'.op = "spawnTree"
        /\ ~(/\ ret'.x >= 0 /\ ret'.x < mapWidth
             /\ ret'.y >= 0 /\ ret'.y < mapHeight) )
      => (~ret'.result /\ Len(trees') = Len(trees)) ]_vars

\* the trees of the registry on cell c
TreesOn(c) == SelectSeq(trees, LAMBDA tree : tree.mapX = c[1] /\ tree.mapY = c[2])

\* C27: after generateTrees(map, climate) the registry holds exactly the trees
\* that call created (those present before are gone), every tree stands on a
\* GRASS tile, no cell holds more than the climate's maxTreesPerTile trees,
\* and a map without GRASS yields no tree.
C27_GenerateTrees ==
  ret.op = "generateTrees" =>
    /\ trees = ret.created
    /\ \A i \in DOMAIN trees :
         TileAt(mapData, trees[i].mapX, trees[i].mapY).type = GRASS
    /\ \A c \in (0 .. mapWidth - 1) \X (0 .. mapHeight - 1) :
         Len(TreesOn(c)) <= maxTreesPerTile(ret.climate)
    /\ (\A c \in (0 .. mapWidth - 1) \X (0 .. mapHeight - 1) :
          TileAt(mapData, c[1], c[2]).type # GRASS) => trees = <<>>

\* C27 witness: a dense-forest generation over a registry that held trees
\* put the climate's maximum of five trees on the GRASS cell.
C27_Witness ==
  /\ ret.op = "generateTrees"
  /\ ret.climate = "dense_forest"
  /\ ret.before > 0
  /\ Len(trees) = 5

\* the squared screen distance of a tree to the height-0 projection of a cell
ScreenDist2(tree, mapX, mapY) ==
  LET cx == mapCenterX + ((mapX - mapY) * tileWidth) \div 2
      cy == mapCenterY + ((mapX + mapY) * tileHeight) \div 2
  IN (tree.screenX - cx) * (tree.screenX - cx)
       + (tree.screenY - cy) * (tree.screenY - cy)

\* tree is a zero-offset tree on cell (mapX, mapY) at height 0
ZeroOffsetOn(tree, mapX, mapY) ==
  /\ tree.mapX = mapX /\ tree.mapY = mapY
  /\ tree.offsetX = 0 /\ tree.offsetY = 0 /\ tree.height = 0

\* C28: getTreesInRadius returns, in registry order, exactly the trees whose
\* squared screen distance to the height-0 projection of the query cell is at
\* most (radius * tileWidth / 2)^2; with radius 1 a zero-offset tree on the
\* diagonal neighbour (x+1, y+1) is returned and one on the orthogonal
\* neighbour (x+1, y) is not.
C28_ScreenPlaneRadius ==
  ret.op = "getTreesInRadius" =>
    /\ ret.result =
         SelectSeq(trees, LAMBDA tree :
           4 * ret.radius[2] * ret.radius[2] * ScreenDist2(tree, ret.x, ret.y)
             <= ret.radius[1] * ret.radius[1] * tileWidth * tileWidth)
    /\ ret.radius = <<1, 1>> =>
         \A i \in DOMAIN trees :
           /\ ZeroOffsetOn(trees[i], ret.x + 1, ret.y + 1) =>
                \E j \in DOMAIN ret.result : ret.result[j] = trees[i]
           /\ ZeroOffsetOn(trees[i], ret.x + 1, ret.y) =>
                \A j \in DOMAIN ret.result : ret.result[j] # trees[i]

\* C28 witness: a radius-1 query with a tree on the diagonal neighbour, which
\* it returned, and a tree on the orthogonal neighbour, which it did not.
C28_Witness ==
  /\ ret.op = "getTreesInRadius"
  /\ ret.radius = <<1, 1>>
  /\ \E i \in DOMAIN trees : ZeroOffsetOn(trees[i], ret.x + 1, ret.y + 1)
  /\ \E i \in DOMAIN trees : ZeroOffsetOn(trees[i], ret.x + 1, ret.y)
  /\ Len(ret.result) = 1

\* C29: removeTreesInRadius(x, y, r) removes exactly the trees that
\* getTreesInRadius(x, y, r) returns in the state of the call, returns their
\* number, keeps every other tree in its original order, and afterwards
\* getTreesInRadius(x, y, r) is empty.
C29_RemoveTreesInRadius ==
  [][ ret'.op = "removeTreesInRadius" =>
        LET inside == getTreesInRadius(trees, ret'.x, ret'.y, ret'.radius)
            isInside(tree) == \E j \in DOMAIN inside : inside[j] = tree
        IN /\ trees' = SelectSeq(trees, LAMBDA tree : ~isInside(tree))
           /\ ret'.result = Len(inside)
           /\ getTreesInRadius(trees', ret'.x, ret'.y, ret'.radius) = <<>> ]_vars

\* C29 witness: a removal took two trees out of the radius and left a tree
\* that stands outside it.
C29_Witness ==
  /\ ret.op = "removeTreesInRadius"
  /\ ret.result = 2
  /\ Len(trees) = 1

\* C30: when a valid border cell exists, nothing removes an NPC and frames
\* keep arriving, the population eventually is maxNpcs and stays maxNpcs.
C30_PopulationFills ==
  (validPositions # {}) => <>[](Len(npcs) = maxNpcs)

\* C30 witness: the population is at capacity at the end of a run on a map
\* with an entry point.
C30_Witness ==
  /\ validPositions # {}
  /\ Len(npcs) = maxNpcs
  /\ time = LiveHorizon

\* C31: when an NPC starts a move, a settlement check of its cell has run
\* since it arrived there: either the tick that starts the move ran the check
\* first (the check saw the cell the NPC is leaving), or the last check is
\* later than the start of the NPC's previous move; a moving NPC is never
\* checked, so a check later than the start of a move is later than the
\* arrival, and the move timer records the start of every move.
C31_CheckBeforeMove ==
  [][ \A id \in Staying :
        LET a == ById(npcs, id)
            b == ById(npcs', id)
        IN /\ StartedFor(id) # {} =>
                /\ \/ /\ b.lastStateCheck = time'
                      /\ b.state = PLACE_FOUND <=> isNicePlace(a.mapX, a.mapY)
                   \/ a.lastStateCheck > a.lastMove
                /\ b.lastMove = time'
                /\ \A tw \in StartedFor(id) : tw.start = time'
           /\ a.isMoving => b.lastStateCheck = a.lastStateCheck
           /\ b.lastMove >= a.lastMove ]_vars

\* C31 witness: a move started at a tick that ran no check, the check of the
\* cell having run at an earlier tick after the NPC's previous move.
C31_Witness ==
  \E i \in DOMAIN npcs :
    /\ npcs[i].isMoving
    /\ npcs[i].lastMove = time
    /\ \E tw \in tweens : tw.npc = npcs[i].id /\ tw.start = time
    /\ npcs[i].lastStateCheck < time
    /\ npcs[i].lastStateCheck > spawnInterval
    /\ <<npcs[i].mapX, npcs[i].mapY>> \notin borderPositions

\* C32: for one NPC a settlement check runs only when stateCheckInterval has
\* passed since its last check and a move attempt only when moveSpeed has
\* passed since its last attempt; an attempt that finds no valid neighbour
\* resets the move timer all the same; a new NPC starts with both timers at
\* 0, whatever the time of its creation.
C32_Timers ==
  [][ /\ \A id \in Staying :
           LET a == ById(npcs, id)
               b == ById(npcs', id)
           IN /\ b.lastStateCheck # a.lastStateCheck =>
                   /\ b.lastStateCheck = time'
                   /\ time' - a.lastStateCheck >= stateCheckInterval
              /\ b.lastMove # a.lastMove =>
                   /\ b.lastMove = time'
                   /\ time' - a.lastMove >= moveSpeed
              /\ ( /\ IsTick
                   /\ a.state = SEARCHING /\ ~a.isMoving
                   /\ time' - a.lastMove >= moveSpeed
                   /\ NoValidNeighbour(a) ) => b.lastMove = time'
      /\ \A id \in Live(npcs') \ Live(npcs) :
           /\ ById(npcs', id).lastStateCheck = 0
           /\ ById(npcs', id).lastMove = 0 ]_vars

\* C32 witness: an NPC without a valid neighbour whose move timer was reset
\* by the current tick, which is not its first: its last check is earlier.
C32_Witness ==
  \E i \in DOMAIN npcs :
    /\ NoValidNeighbour(npcs[i])
    /\ npcs[i].lastMove = time
    /\ npcs[i].lastStateCheck > 0
    /\ npcs[i].lastStateCheck < time

\* C33: when the tween of an NPC that was removed (removeNPC or clearAllNPCs)
\* completes, the manager's list is as before: same NPCs, same count, same
\* cell, state and flags for every live NPC; removing an NPC leaves its tween
\* in flight.
C33_StaleTweenCompletion ==
  [][ /\ \A tw \in tweens \ tweens' :
           tw.npc \notin Live(npcs) => npcs' = npcs
      /\ Live(npcs') # Live(npcs) => tweens' \cap tweens = tweens ]_vars

\* C33 witness: the tween of a removed NPC is in flight while another NPC is
\* in the list.
C33_Witness ==
  /\ npcs # <<>>
  /\ \E tw \in tweens :
       /\ tw.npc \notin Live(npcs)
       /\ \E i \in DOMAIN npcs :
            npcs[i].mapX # tw.newMapX \/ npcs[i].mapY # tw.newMapY

\* the ids of a collection are pairwise distinct and all below the counter
IdsFresh(objs, next) ==
  /\ \A i, j \in DOMAIN objs : objs[i].id = objs[j].id => i = j
  /\ \A i \in DOMAIN objs : objs[i].id \in 1 .. next - 1

\* a step that lengthens the collection appends one object numbered with the
\* counter and advances the counter by one; any other step (failed creation,
\* removal, clear-all) leaves the counter as it is
IdsInOrder(objs, objsNext, next, nextNext) ==
  IF Len(objsNext) > Len(objs)
    THEN /\ Len(objsNext) = Len(objs) + 1
         /\ SubSeq(objsNext, 1, Len(objs)) = objs
         /\ objsNext[Len(objsNext)].id = next
         /\ nextNext = next + 1
    ELSE nextNext = next

\* C34: NPCManager and TentManager number what they create 1, 2, 3, ... in
\* creation order; a failed creation, a removal and a clear-all leave the
\* counter alone, and the live NPCs, like the live tents, always have
\* pairwise distinct ids.
C34_IdsNeverReused ==
  /\ [](IdsFresh(npcs, nextNpcId) /\ IdsFresh(tents, nextTentId))
  /\ [][ /\ IdsInOrder(npcs, npcs', nextNpcId, nextNpcId')
         /\ IdsInOrder(tents, tents', nextTentId, nextTentId') ]_vars

\* C34 witness: the NPC and the tent created after the first of each was
\* removed carry id 2.
C34_Witness ==
  /\ Live(npcs) = {2}
  /\ Live(tents) = {2}

\* the step is an operation of an NPC or of the NPCManager
NpcStep ==
  \/ npcs' # npcs \/ nextNpcId' # nextNpcId \/ lastSpawn' # lastSpawn
  \/ tweens' # tweens \/ time' # time
  \/ ret'.op \in {"spawnNPC", "removeNPC", "clearAllNPCs"}

\* C35: no step changes the grid's dimensions or the type or height of a
\* tile, and a step of an NPC or of the NPCManager (update, settlement check,
\* move, tween completion, spawn, removal) leaves the tree registry as it is.
C35_FrameEffects ==
  [][ /\ mapData' = mapData
      /\ mapWidth' = mapWidth /\ mapHeight' = mapHeight
      /\ NpcStep => trees' = trees ]_vars

\* C35 witness: with a tree registered, an NPC was checked, has moved and
\* another NPC was removed.
C35_Witness ==
  /\ trees # <<>>
  /\ Len(npcs) < nextNpcId - 1
  /\ \E i \in DOMAIN npcs :
       /\ npcs[i].lastStateCheck > 0
       /\ npcs[i].lastMove > 0
       /\ <<npcs[i].mapX, npcs[i].mapY>> \notin borderPositions

\* the climates whose maps hold no SAND away from the coastline
NoSandClimates == {"sparse_forest", "dense_forest", "high_mountain"}

\* C36: in a map of climate SPARSE_FOREST, DENSE_FOREST or HIGH_MOUNTAIN a
\* tile is SAND only when a coastline cell is within Chebyshev distance 1 of
\* it; without coastline such a map has no SAND tile, with or without a
\* river, and the classifier called away from all features never returns
\* SAND for these climates.
C36_SandOnlyAtCoast ==
  /\ (Generated /\ ret.result.metadata.climate \in NoSandClimates) =>
       /\ \A t \in GenTiles :
            t.tile.type = SAND => Within1(t.x, t.y, ret.coastline)
       /\ ret.coastline = {} => \A t \in GenTiles : t.tile.type # SAND
  /\ (ret.op = "getTileForClimate" /\ ret.climate \in NoSandClimates) =>
       ret.result # SAND

\* C36 witness: a map of such a climate with a river, without coastline,
\* with a dry cell next to the river.
C36_Witness ==
  /\ Generated
  /\ ret.result.metadata.climate \in NoSandClimates
  /\ ret.river # {}
  /\ ret.coastline = {}
  /\ \E t \in GenTiles :
       /\ ~InFeature(t.x, t.y)
       /\ Within1(t.x, t.y, ret.river)
       /\ t.tile.type \in {GRASS, ROCK, SNOW}

\* a river was carved, by generateMap or by a direct call
RiverCarved ==
  \/ Generated /\ ret.result.metadata.hasRiver
  \/ ret.op = "generateRiverPath"

\* the columns of the river's cells in row y
RiverColumns(y) == { c[1] : c \in { r \in ret.river : r[2] = y } }

\* C37: a river carved on a grid at least 3 wide and 1 high lies inside the
\* grid and has a cell in every row; along any walk that carves it the centre
\* column moves by at most 1 per row, lies in [1, width - 2] after every
\* advance and is a river cell of its row; each row's river cells are
\* contiguous and share a column with the next row's, so the river is one
\* connected corridor from the top row to the bottom row.
C37_RiverCorridor ==
  (RiverCarved /\ ret.width >= 3 /\ ret.height >= 1) =>
    /\ \A c \in ret.river :
         c[1] \in 0 .. ret.width - 1 /\ c[2] \in 0 .. ret.height - 1
    /\ \A y \in 0 .. ret.height - 1 :
         /\ RiverColumns(y) # {}
         /\ \A x1, x2 \in RiverColumns(y) : x1 .. x2 \subseteq RiverColumns(y)
         /\ y + 1 < ret.height => RiverColumns(y) \cap RiverColumns(y + 1) # {}
    /\ ret.walks # {}
    /\ \A centres \in ret.walks :
         /\ Len(centres) = ret.height + 1
         /\ \A k \in 2 .. Len(centres) :
              /\ centres[k] \in 1 .. ret.width - 2
              /\ centres[k] - centres[k - 1] \in -1 .. 1
         /\ \A k \in 1 .. ret.height : centres[k] \in RiverColumns(k - 1)

\* C37 witness: a river over several rows that started on the right border
\* column, where the clamp moves the walk inwards, and does not fill its rows.
C37_Witness ==
  /\ RiverCarved
  /\ ret.width >= 3 /\ ret.height >= 2
  /\ \E centres \in ret.walks : centres[1] = ret.width - 1
  /\ \E y \in 0 .. ret.height - 1 : RiverColumns(y) # 0 .. ret.width - 1

\* a coastline was carved, by generateMap or by a direct call
CoastCarved ==
  \/ Generated /\ ret.result.metadata.hasCoastline
  \/ ret.op = "generateCoastline"

\* the distance of a cell from an edge of the grid (0 on the edge), and the
\* position of the cell along that edge; edges are 0 top, 1 right, 2 bottom,
\* 3 left
FromEdge(c, side) ==
  CASE side = 0 -> c[2]
    [] side = 1 -> ret.width - 1 - c[1]
    [] side = 2 -> ret.height - 1 - c[2]
    [] side = 3 -> c[1]
AlongEdge(c, side) == IF side \in {0, 2} THEN c[1] ELSE c[2]

\* along the given edge every column (or row) holds a run of coastline cells
\* that starts at the edge and whose length is between lo and hi
RunsFromEdge(side, lo, hi) ==
  \A i \in 0 .. (IF side \in {0, 2} THEN ret.width ELSE ret.height) - 1 :
    LET ds == { FromEdge(c, side) : c \in { e \in ret.coastline : AlongEdge(e, side) = i } }
    IN /\ ds = 0 .. Cardinality(ds) - 1
       /\ Cardinality(ds) >= lo
       /\ Cardinality(ds) <= hi

\* C38: the cells of a carved coastline are inside the grid; along one edge
\* (the edge drawn, for a direct call) every column or row holds one
\* contiguous run starting at that edge, of a length between
\* floor(0.3 * min(W, H)) - 2 and floor(0.3 * min(W, H)), so no coastline
\* cell is farther than that from the edge.
C38_CoastlineStrip ==
  (CoastCarved /\ ret.width >= 1 /\ ret.height >= 1) =>
    LET hi == (3 * Min(ret.width, ret.height)) \div 10
        sides == IF ret.op = "generateCoastline" THEN {ret.side} ELSE 0 .. 3
    IN /\ \A c \in ret.coastline :
            c[1] \in 0 .. ret.width - 1 /\ c[2] \in 0 .. ret.height - 1
       /\ \E side \in sides :
            /\ RunsFromEdge(side, hi - 2, hi)
            /\ \A c \in ret.coastline : FromEdge(c, side) < hi

\* C38 witness: a coastline on the right edge whose runs are 3 and 1 deep.
C38_Witness ==
  /\ ret.op = "generateCoastline"
  /\ ret.side = 1
  /\ \E c \in ret.coastline : FromEdge(c, 1) = 2
  /\ \E i \in 0 .. ret.height - 1 :
       Cardinality({ c \in ret.coastline : c[2] = i }) = 1

\* the positions in the registry ts of the trees on cell (mapX, mapY)
IndicesOn(ts, mapX, mapY) ==
  { i \in DOMAIN ts : ts[i].mapX = mapX /\ ts[i].mapY = mapY }

\* the smallest member of a non-empty set of positions
First(S) == CHOOSE i \in S : \A j \in S : i <= j

\* C39: removeTreeAt(x, y) on a cell with trees removes the earliest inserted
\* of them and no other tree, so the count drops by exactly 1, and returns
\* true; on a cell without trees it returns false and changes nothing.
\* getTreeAt(x, y) returns the earliest inserted tree of the cell still
\* registered, and null exactly when no tree is registered on the cell.
C39_TreeAt ==
  [][ /\ ret'.op = "removeTreeAt" =>
           LET on == IndicesOn(trees, ret'.x, ret'.y) IN
           IF on = {}
             THEN ~ret'.result /\ trees' = trees
             ELSE /\ ret'.result
                  /\ Len(trees') = Len(trees) - 1
                  /\ trees' = [i \in 1 .. Len(trees) - 1 |->
                                 IF i < First(on) THEN trees[i] ELSE trees[i + 1]]
      /\ ret'.op = "getTreeAt" =>
           LET on == IndicesOn(trees', ret'.x, ret'.y) IN
           /\ on # {} => ret'.result = trees'[First(on)]
           /\ ret'.result = NoTree <=> on = {} ]_vars

\* C39 witness: a removal returned true and left another tree on the cell.
C39_Witness ==
  /\ ret.op = "removeTreeAt"
  /\ ret.result
  /\ IndicesOn(trees, ret.x, ret.y) # {}
  /\ \E i \in DOMAIN trees : ~(trees[i].mapX = ret.x /\ trees[i].mapY = ret.y)

====
